---- MODULE Spec2Model ----
(***************************************************************************)
(* A model of the MCP patch engine of LM-Studio-MCP-MultiTools             *)
(* (src/src/mcp/server.ts) and of the part of the dashboard server that    *)
(* supplies its root (src/src/control/server.ts, src/src/runtime/index.ts).*)
(*                                                                         *)
(* Text is modelled by TLA+ strings, with Len, SubSeq and \o as the        *)
(* character-level operations, so that the parser, the path resolver and   *)
(* the hunk splicer are computed character by character and line by line   *)
(* as the TypeScript computes them.  Paths follow node:path's POSIX        *)
(* flavour.  A call of fs.promises (mkdir, readFile, writeFile, unlink) is *)
(* one atomic step of the filesystem; the code between two such calls runs *)
(* without suspension, as it does on Node's event loop.                    *)
(***************************************************************************)
EXTENDS Integers, Sequences, FiniteSets, TLC

VARIABLES
    dashboardState,  \* control/server.ts: the dashboard state (rootDir)
    cache,           \* runtime/index.ts: the runtime cache (rootDir)
    fs,              \* the filesystem: files and directories
    req,             \* the requests to /mcp/*, one per connection slot
    served,          \* requests whose body has been received so far
    posted,          \* POST /state requests handled so far
    fin,             \* input of the function under test (function specs)
    fout,            \* its result, or NotCalled
    runtimeJson,     \* runtime/index.ts: the content of runtime.json
    post,            \* the POST /state requests, one per connection slot
    chat,            \* the POST /chat requests, one per connection slot
    activeLmAbortController,  \* control/server.ts: the controller /abort uses
    abortResponses,  \* the answers of the POST /abort requests so far
    http             \* any request, as the two 'request' listeners see it

vars == <<dashboardState, cache, fs, req, served, posted, fin, fout,
          runtimeJson, post, chat, activeLmAbortController, abortResponses,
          http>>

\* the state of the dashboard server's own handlers
ctlvars ==
    <<runtimeJson, post, chat, activeLmAbortController, abortResponses, http>>

(***************************************************************************)
(* Strings                                                                 *)
(***************************************************************************)
MinOf(S) == CHOOSE x \in S : \A y \in S : x <= y

MaxOf(S) == CHOOSE x \in S : \A y \in S : y <= x

\* s.startsWith(p, i-1): p occurs in s at the 1-based position i
StartsWithAt(s, p, i) ==
    /\ i + Len(p) - 1 <= Len(s)
    /\ SubSeq(s, i, i + Len(p) - 1) = p

\* s.startsWith(p)
StartsWith(s, p) == StartsWithAt(s, p, 1)

\* s.indexOf(p) + 1: the 1-based position of the first occurrence, 0 if none
IndexOf(s, p) ==
    LET I == {i \in 1..(Len(s) - Len(p) + 1) : StartsWithAt(s, p, i)}
    IN  IF I = {} THEN 0 ELSE MinOf(I)

\* s.includes(p)
Includes(s, p) == IndexOf(s, p) # 0

\* s.replace(p, r) for a string pattern p: the first occurrence only
ReplaceFirst(s, p, r) ==
    LET i == IndexOf(s, p)
    IN  IF i = 0 THEN s
        ELSE SubSeq(s, 1, i - 1) \o r \o SubSeq(s, i + Len(p), Len(s))

RECURSIVE ReplaceAll(_, _, _)
\* s.replace(/p/g, r) for a literal pattern p
ReplaceAll(s, p, r) ==
    LET i == IndexOf(s, p)
    IN  IF i = 0 THEN s
        ELSE SubSeq(s, 1, i - 1) \o r
                 \o ReplaceAll(SubSeq(s, i + Len(p), Len(s)), p, r)

RECURSIVE Split(_, _)
\* s.split(sep): a sequence of at least one string
Split(s, sep) ==
    LET i == IndexOf(s, sep)
    IN  IF i = 0 THEN <<s>>
        ELSE <<SubSeq(s, 1, i - 1)>>
                 \o Split(SubSeq(s, i + Len(sep), Len(s)), sep)

RECURSIVE Join(_, _)
\* a.join(sep)
Join(a, sep) ==
    IF Len(a) = 0 THEN ""
    ELSE IF Len(a) = 1 THEN a[1]
    ELSE a[1] \o sep \o Join(Tail(a), sep)

WhiteSpace == {" ", "\t", "\n", "\r"}

\* s.trim()
Trim(s) ==
    LET K == {i \in 1..Len(s) : SubSeq(s, i, i) \notin WhiteSpace}
    IN  IF K = {} THEN "" ELSE SubSeq(s, MinOf(K), MaxOf(K))

UpperCase == "ABCDEFGHIJKLMNOPQRSTUVWXYZ"

LowerCase == "abcdefghijklmnopqrstuvwxyz"

RECURSIVE ToLowerCase(_)
\* s.toLowerCase()
ToLowerCase(s) ==
    IF s = "" THEN ""
    ELSE LET c == SubSeq(s, 1, 1)
             k == IndexOf(UpperCase, c)
         IN  (IF k = 0 THEN c ELSE SubSeq(LowerCase, k, k))
                 \o ToLowerCase(SubSeq(s, 2, Len(s)))

Digits == "0123456789"

IsDigit(c) == Len(c) = 1 /\ IndexOf(Digits, c) # 0

RECURSIVE Number(_)
\* Number(ds) for a non-empty run of decimal digits
Number(ds) ==
    IF ds = "" THEN 0
    ELSE Number(SubSeq(ds, 1, Len(ds) - 1)) * 10
             + (IndexOf(Digits, SubSeq(ds, Len(ds), Len(ds))) - 1)

\* the end of the longest run of digits of s that starts at i (i-1 if none)
DigitRunEnd(s, i) ==
    LET J == {j \in (i - 1)..Len(s) :
                 \A k \in i..j : IsDigit(SubSeq(s, k, k))}
    IN  MaxOf(J)

(***************************************************************************)
(* node:path (POSIX)                                                       *)
(***************************************************************************)
\* the working directory of the server process and its MCP_ROOT_DIR ("" when
\* the variable is not set)
Cwd == "/ws"

EnvMcpRootDir == ""

RECURSIVE NormalizeSegments(_, _, _)
\* normalizeString: "." and empty segments are dropped, ".." removes the
\* segment before it, and is kept only where allowAboveRoot
NormalizeSegments(segs, acc, allowAboveRoot) ==
    IF Len(segs) = 0 THEN acc
    ELSE LET sg == Head(segs)
             nxt == IF sg = "" \/ sg = "." THEN acc
                    ELSE IF sg = ".."
                         THEN IF Len(acc) > 0 /\ acc[Len(acc)] # ".."
                              THEN SubSeq(acc, 1, Len(acc) - 1)
                              ELSE IF allowAboveRoot THEN Append(acc, "..")
                              ELSE acc
                    ELSE Append(acc, sg)
         IN  NormalizeSegments(Tail(segs), nxt, allowAboveRoot)

NormalizeString(p, allowAboveRoot) ==
    Join(NormalizeSegments(Split(p, "/"), <<>>, allowAboveRoot), "/")

IsAbsolute(p) == StartsWith(p, "/")

\* path.normalize(p)
PathNormalize(p) ==
    IF p = "" THEN "."
    ELSE LET isAbs == IsAbsolute(p)
             trailing == SubSeq(p, Len(p), Len(p)) = "/"
             n == NormalizeString(p, ~isAbs)
         IN  IF n = ""
             THEN (IF isAbs THEN "/" ELSE IF trailing THEN "./" ELSE ".")
             ELSE (IF isAbs THEN "/" ELSE "") \o n
                      \o (IF trailing THEN "/" ELSE "")

RECURSIVE ResolveFrom(_, _, _)
\* the right-to-left loop of path.resolve: args[i], ..., args[1], then cwd
ResolveFrom(args, i, resolved) ==
    IF IsAbsolute(resolved) THEN resolved
    ELSE LET p == IF i >= 1 THEN args[i] ELSE Cwd
         IN  IF p = "" THEN ResolveFrom(args, i - 1, resolved)
             ELSE ResolveFrom(args, i - 1, p \o "/" \o resolved)

\* path.resolve(...args)
PathResolve(args) ==
    "/" \o NormalizeString(ResolveFrom(args, Len(args), ""), FALSE)

\* path.dirname(p)
PathDirname(p) ==
    IF p = "" THEN "."
    ELSE LET hasRoot == IsAbsolute(p)
             \* 1-based positions of a "/" that has a non-"/" after it
             E == {i \in 2..Len(p) :
                      /\ SubSeq(p, i, i) = "/"
                      /\ \E j \in (i + 1)..Len(p) : SubSeq(p, j, j) # "/"}
         IN  IF E = {} THEN (IF hasRoot THEN "/" ELSE ".")
             ELSE IF hasRoot /\ MaxOf(E) = 2 THEN "//"
             ELSE SubSeq(p, 1, MaxOf(E) - 1)

(***************************************************************************)
(* Root-safe path resolution (mcp/server.ts)                               *)
(***************************************************************************)
\* the literal-prefix test of withinRoot
PrefixCheck(absNorm, rootNorm) == StartsWith(absNorm, rootNorm)

SecurityError(relPath, ROOT) ==
    "Refusing to write outside root. rel=\"" \o relPath
        \o "\", root=\"" \o ROOT \o "\""

\* withinRoot(getRoot, relPath), with root the value getRoot() returns
withinRoot(root, relPath) ==
    LET ROOT == PathResolve(<<root>>)
        rel == IF relPath # "" /\ Trim(relPath) # "" THEN relPath ELSE "."
        abs == PathResolve(<<ROOT, rel>>)
        rootNorm == ToLowerCase(PathNormalize(ROOT))
        absNorm == ToLowerCase(PathNormalize(abs))
    IN  IF ~PrefixCheck(absNorm, rootNorm)
        THEN [ok |-> FALSE, abs |-> abs, ROOT |-> ROOT,
              error |-> SecurityError(relPath, ROOT)]
        ELSE [ok |-> TRUE, abs |-> abs, ROOT |-> ROOT, error |-> ""]


(***************************************************************************)
(* Parse patch (mcp/server.ts)                                             *)
(***************************************************************************)
BeginMarker == "*** Begin Patch"

AddHeader == "*** Add File:"

UpdateHeader == "*** Update File:"

DeleteHeader == "*** Delete File:"

MissingBegin == "Patch missing *** Begin Patch"

MissingHeader == "Patch must contain one of Add/Update/Delete headers"

NoHunk == [oldRange |-> [start |-> 0, count |-> 0],
           newRange |-> [start |-> 0, count |-> 0],
           lines |-> <<>>, open |-> FALSE]

\* the begin marker looked for on any line
HasBeginMarkerAnywhere(lines) ==
    \E i \in 1..Len(lines) : Includes(lines[i], BeginMarker)

\* the test of the begin marker on lines[0]
HasBeginMarker(lines) == Includes(lines[1], BeginMarker)

IsHeaderLine(line) ==
    \/ StartsWith(line, AddHeader)
    \/ StartsWith(line, UpdateHeader)
    \/ StartsWith(line, DeleteHeader)

\* the header a line carries: its op and the trimmed rest of the line
HeaderOf(line) ==
    IF StartsWith(line, AddHeader)
    THEN [op |-> "add", path |-> Trim(ReplaceFirst(line, AddHeader, ""))]
    ELSE IF StartsWith(line, UpdateHeader)
    THEN [op |-> "update", path |-> Trim(ReplaceFirst(line, UpdateHeader, ""))]
    ELSE [op |-> "delete", path |-> Trim(ReplaceFirst(line, DeleteHeader, ""))]

\* the scan without its breaks: the last header line wins
ScanHeaderLast(lines) ==
    LET H == {i \in 1..Len(lines) : IsHeaderLine(lines[i])}
    IN  IF H = {} THEN [op |-> "none", path |-> ""]
        ELSE HeaderOf(lines[MaxOf(H)])

\* the scan for the operation header: the loop breaks at the first match
ScanHeader(lines) ==
    LET H == {i \in 1..Len(lines) : IsHeaderLine(lines[i])}
    IN  IF H = {} THEN [op |-> "none", path |-> ""]
        ELSE HeaderOf(lines[MinOf(H)])

\* the content of an added file with the "+++" lines taken as added text
AddContentWithMarkers(lines) ==
    LET plus == SelectSeq(lines, LAMBDA l : StartsWith(l, "+"))
        contentLines == [i \in 1..Len(plus) |-> SubSeq(plus[i], 2, Len(plus[i]))]
    IN  Join(contentLines, "\n") \o (IF Len(contentLines) > 0 THEN "\n" ELSE "")

\* the content of an added file
AddContent(lines) ==
    LET plus == SelectSeq(lines,
                    LAMBDA l : StartsWith(l, "+") /\ ~StartsWith(l, "+++"))
        contentLines == [i \in 1..Len(plus) |-> SubSeq(plus[i], 2, Len(plus[i]))]
    IN  Join(contentLines, "\n") \o (IF Len(contentLines) > 0 THEN "\n" ELSE "")

\* line.match(/^@@ -(\d+),(\d+) \+(\d+),(\d+) @@/): the four numbers, or <<>>
HunkHeaderMatch(line) ==
    LET e1 == DigitRunEnd(line, 5)
        e2 == DigitRunEnd(line, e1 + 2)
        e3 == DigitRunEnd(line, e2 + 3)
        e4 == DigitRunEnd(line, e3 + 2)
    IN  IF /\ StartsWith(line, "@@ -")
           /\ e1 >= 5
           /\ StartsWithAt(line, ",", e1 + 1)
           /\ e2 >= e1 + 2
           /\ StartsWithAt(line, " +", e2 + 1)
           /\ e3 >= e2 + 3
           /\ StartsWithAt(line, ",", e3 + 1)
           /\ e4 >= e3 + 2
           /\ StartsWithAt(line, " @@", e4 + 1)
        THEN << Number(SubSeq(line, 5, e1)), Number(SubSeq(line, e1 + 2, e2)),
                Number(SubSeq(line, e2 + 3, e3)), Number(SubSeq(line, e3 + 2, e4)) >>
        ELSE <<>>

\* the classification with the white space around a context line dropped
ClassifyLineTrimmed(line) ==
    IF StartsWith(line, "+") /\ ~StartsWith(line, "+++")
    THEN << [type |-> "add", text |-> SubSeq(line, 2, Len(line))] >>
    ELSE IF StartsWith(line, "-") /\ ~StartsWith(line, "---")
    THEN << [type |-> "remove", text |-> SubSeq(line, 2, Len(line))] >>
    ELSE IF ~StartsWith(line, "***") /\ ~StartsWith(line, "@@")
    THEN << [type |-> "context", text |-> Trim(line)] >>
    ELSE <<>>

\* the classification of a line inside a hunk: the line it adds, or <<>>
ClassifyLine(line) ==
    IF StartsWith(line, "+") /\ ~StartsWith(line, "+++")
    THEN << [type |-> "add", text |-> SubSeq(line, 2, Len(line))] >>
    ELSE IF StartsWith(line, "-") /\ ~StartsWith(line, "---")
    THEN << [type |-> "remove", text |-> SubSeq(line, 2, Len(line))] >>
    ELSE IF ~StartsWith(line, "***") /\ ~StartsWith(line, "@@")
    THEN << [type |-> "context", text |-> line] >>
    ELSE <<>>

HunkValue(h) ==
    [oldRange |-> h.oldRange, newRange |-> h.newRange, lines |-> h.lines]

RECURSIVE ScanHunks(_, _, _, _)
\* the loop over the lines of an update: hunks pushed so far, current hunk
ScanHunks(lines, i, hunks, current) ==
    IF i > Len(lines)
    THEN (IF current.open THEN Append(hunks, HunkValue(current)) ELSE hunks)
    ELSE LET m == HunkHeaderMatch(lines[i])
         IN  IF m # <<>>
             THEN ScanHunks(lines, i + 1,
                      IF current.open THEN Append(hunks, HunkValue(current))
                                      ELSE hunks,
                      [oldRange |-> [start |-> m[1], count |-> m[2]],
                       newRange |-> [start |-> m[3], count |-> m[4]],
                       lines |-> <<>>, open |-> TRUE])
             ELSE IF current.open
             THEN ScanHunks(lines, i + 1, hunks,
                      [current EXCEPT !.lines = @ \o ClassifyLine(lines[i])])
             ELSE ScanHunks(lines, i + 1, hunks, current)

ParseError(msg) ==
    [ok |-> FALSE, error |-> msg, op |-> "none", path |-> "",
     newContent |-> "", hunks |-> <<>>]

\* parseSimplifiedPatch(raw): a ParsedPatch, or the Error it throws
parseSimplifiedPatch(raw) ==
    LET normalized == ReplaceAll(raw, "\r\n", "\n")
        lines == Split(normalized, "\n")
        hd == ScanHeader(lines)
    IN  IF ~HasBeginMarker(lines) THEN ParseError(MissingBegin)
        ELSE IF hd.op = "none" \/ hd.path = "" THEN ParseError(MissingHeader)
        ELSE IF hd.op = "delete"
        THEN [ok |-> TRUE, error |-> "", op |-> "delete", path |-> hd.path,
              newContent |-> "", hunks |-> <<>>]
        ELSE IF hd.op = "add"
        THEN [ok |-> TRUE, error |-> "", op |-> "add", path |-> hd.path,
              newContent |-> AddContent(lines), hunks |-> <<>>]
        ELSE [ok |-> TRUE, error |-> "", op |-> "update", path |-> hd.path,
              newContent |-> "", hunks |-> ScanHunks(lines, 1, <<>>, NoHunk)]


(***************************************************************************)
(* The filesystem: fs.promises as the engine uses it                       *)
(***************************************************************************)
RECURSIVE AncestorsOf(_)
\* a directory and every directory above it, up to "/"
AncestorsOf(dir) ==
    IF PathDirname(dir) = dir THEN {dir}
    ELSE {dir} \cup AncestorsOf(PathDirname(dir))

IsFile(f, p) == p \in DOMAIN f.files

IsDir(f, p) == p \in f.dirs

\* fs.mkdir(dir) without recursive: the parent must exist, dir must not
FsMkdirPlain(f, dir) ==
    IF IsFile(f, dir) \/ IsDir(f, dir)
    THEN [ok |-> FALSE, fs |-> f,
          error |-> "EEXIST: file already exists, mkdir '" \o dir \o "'"]
    ELSE IF ~IsDir(f, PathDirname(dir))
    THEN [ok |-> FALSE, fs |-> f,
          error |-> "ENOENT: no such file or directory, mkdir '" \o dir \o "'"]
    ELSE [ok |-> TRUE, fs |-> [f EXCEPT !.dirs = @ \cup {dir}], error |-> ""]

\* fs.mkdir(dir, { recursive: true })
FsMkdir(f, dir) ==
    IF IsFile(f, dir)
    THEN [ok |-> FALSE, fs |-> f,
          error |-> "EEXIST: file already exists, mkdir '" \o dir \o "'"]
    ELSE IF \E a \in AncestorsOf(dir) : IsFile(f, a)
    THEN [ok |-> FALSE, fs |-> f,
          error |-> "ENOTDIR: not a directory, mkdir '" \o dir \o "'"]
    ELSE [ok |-> TRUE, fs |-> [f EXCEPT !.dirs = @ \cup AncestorsOf(dir)],
          error |-> ""]

\* fs.writeFile(p, content, "utf8")
FsWriteFile(f, p, content) ==
    IF IsDir(f, p)
    THEN [ok |-> FALSE, fs |-> f,
          error |-> "EISDIR: illegal operation on a directory, open '" \o p \o "'"]
    ELSE IF \E a \in AncestorsOf(PathDirname(p)) : IsFile(f, a)
    THEN [ok |-> FALSE, fs |-> f,
          error |-> "ENOTDIR: not a directory, open '" \o p \o "'"]
    ELSE IF ~IsDir(f, PathDirname(p))
    THEN [ok |-> FALSE, fs |-> f,
          error |-> "ENOENT: no such file or directory, open '" \o p \o "'"]
    ELSE [ok |-> TRUE,
          fs |-> [f EXCEPT !.files =
                     [q \in DOMAIN f.files \cup {p} |->
                         IF q = p THEN content ELSE f.files[q]]],
          error |-> ""]

\* fs.readFile(p, "utf8")
FsReadFile(f, p) ==
    IF IsFile(f, p) THEN [ok |-> TRUE, data |-> f.files[p], error |-> ""]
    ELSE IF IsDir(f, p)
    THEN [ok |-> FALSE, data |-> "",
          error |-> "EISDIR: illegal operation on a directory, read"]
    ELSE [ok |-> FALSE, data |-> "",
          error |-> "ENOENT: no such file or directory, open '" \o p \o "'"]

\* a removal that takes a directory with everything below it
FsUnlinkRecursive(f, p) ==
    LET gone(q) == q = p \/ StartsWith(q, p \o "/")
    IN  IF IsFile(f, p) \/ IsDir(f, p)
        THEN [ok |-> TRUE,
              fs |-> [dirs |-> {d \in f.dirs : ~gone(d)},
                      files |-> [q \in {x \in DOMAIN f.files : ~gone(x)} |->
                                    f.files[q]]],
              error |-> ""]
        ELSE [ok |-> FALSE, fs |-> f,
              error |-> "ENOENT: no such file or directory, unlink '" \o p \o "'"]

\* fs.unlink(p)
FsUnlink(f, p) ==
    IF IsFile(f, p)
    THEN [ok |-> TRUE,
          fs |-> [f EXCEPT !.files = [q \in DOMAIN f.files \ {p} |-> f.files[q]]],
          error |-> ""]
    ELSE IF IsDir(f, p)
    THEN [ok |-> FALSE, fs |-> f,
          error |-> "EISDIR: illegal operation on a directory, unlink '" \o p \o "'"]
    ELSE [ok |-> FALSE, fs |-> f,
          error |-> "ENOENT: no such file or directory, unlink '" \o p \o "'"]

(***************************************************************************)
(* Apply patch (mcp/server.ts)                                             *)
(***************************************************************************)
\* Array.prototype.splice(start, deleteCount, ...items): the array after it
Splice(lines, start, deleteCount, items) ==
    LET len == Len(lines)
        actualStart == IF start < 0
                       THEN (IF len + start > 0 THEN len + start ELSE 0)
                       ELSE (IF start < len THEN start ELSE len)
        dc == IF deleteCount > 0 THEN deleteCount ELSE 0
        actualDeleteCount == IF dc < len - actualStart THEN dc
                             ELSE len - actualStart
    IN  SubSeq(lines, 1, actualStart) \o items
            \o SubSeq(lines, actualStart + actualDeleteCount + 1, len)

\* the header's 1-based start used as the index
HunkStartOneBased(h) == h.oldRange.start

\* the index taken from the new range of the header
HunkStartFromNew(h) == h.newRange.start - 1

\* the zero-based index a hunk is spliced at
HunkStart(h) == h.oldRange.start - 1

\* a replacement block that keeps the remove lines as well
ReplacementWithRemoved(h) == [i \in 1..Len(h.lines) |-> h.lines[i].text]

\* the replacement block of a hunk: its add and context lines
Replacement(h) ==
    LET kept == SelectSeq(h.lines,
                    LAMBDA ln : ln.type = "add" \/ ln.type = "context")
    IN  [i \in 1..Len(kept) |-> kept[i].text]

\* one turn of the loop over the hunks
ApplyHunk(lines, h) ==
    Splice(lines, HunkStart(h), h.oldRange.count, Replacement(h))

RECURSIVE ApplyHunks(_, _)
\* the loop over parsed.hunks, in patch order
ApplyHunks(lines, hunks) ==
    IF Len(hunks) = 0 THEN lines
    ELSE ApplyHunks(ApplyHunk(lines, Head(hunks)), Tail(hunks))

\* the lines of the file read
OriginalLines(original) == Split(ReplaceAll(original, "\r\n", "\n"), "\n")

\* the text an update writes
FinalText(lines) == Join(lines, "\n") \o "\n"

\* the update of applyParsedPatch, from the text read to the text written
UpdateText(original, hunks) ==
    FinalText(ApplyHunks(OriginalLines(original), hunks))

NotFoundError(relPath) == "File not found for update: " \o relPath


(***************************************************************************)
(* The root provider (control/server.ts, runtime/index.ts)                 *)
(***************************************************************************)
\* a || b on strings
OrElse(a, b) == IF a # "" THEN a ELSE b

\* getWorkspaceRoot(): dashboardState.rootDir -> runtime.json -> env -> cwd
getWorkspaceRoot ==
    PathResolve(<< OrElse(dashboardState.rootDir,
                       OrElse(cache.rootDir, OrElse(EnvMcpRootDir, Cwd))) >>)

(***************************************************************************)
(* HTTP API (mcp/server.ts)                                                *)
(*                                                                         *)
(* A request body is the JSON value its text parses to: Invalid for a text *)
(* JSON.parse rejects, else an object, a function from its keys to values  *)
(* [t |-> "string", s |-> ...] or [t |-> "number", n |-> ...].             *)
(***************************************************************************)
Procs == {1, 2}

Invalid == [valid |-> FALSE, obj |-> <<>>]

JsonObject(o) == [valid |-> TRUE, obj |-> o]

JString(str) == [t |-> "string", s |-> str, n |-> 0]

JNumber(num) == [t |-> "number", s |-> "", n |-> num]

Undefined == [t |-> "undefined", s |-> "", n |-> 0]

\* obj[key] of a destructuring
Field(body, key) ==
    IF key \in DOMAIN body.obj THEN body.obj[key] ELSE Undefined

Truthy(v) ==
    \/ v.t = "string" /\ v.s # ""
    \/ v.t = "number" /\ v.n # 0

RECURSIVE Decimal(_)
Decimal(num) ==
    IF num < 10 THEN SubSeq(Digits, num + 1, num + 1)
    ELSE Decimal(num \div 10) \o SubSeq(Digits, (num % 10) + 1, (num % 10) + 1)

\* String(v || "")
StringOr(v) ==
    IF ~Truthy(v) THEN ""
    ELSE IF v.t = "string" THEN v.s
    ELSE Decimal(v.n)

JsonSyntaxError == "Unexpected token in JSON"

MissingPath == "Missing or invalid 'path' for rewrite_file"

NoResponse == [status |-> 0, body |-> [none |-> TRUE]]

\* res.statusCode = 200; res.end({ ok: true, path, op })
OkResponse(relPath, op) ==
    [status |-> 200, body |-> [ok |-> TRUE, path |-> relPath, op |-> op]]

\* res.statusCode = 400; res.end({ error: e.message })
ErrorResponse(msg) == [status |-> 400, body |-> [error |-> msg]]

NoWithin == [ok |-> FALSE, abs |-> "", ROOT |-> "", error |-> ""]

Idle ==
    [pc |-> "idle", url |-> "", relPath |-> "", op |-> "none",
     hunks |-> <<>>, content |-> "", within |-> NoWithin, original |-> "",
     res |-> NoResponse, calls |-> <<>>]

\* the request after its handler threw or answered
Answered(r, response) == [r EXCEPT !.pc = "done", !.res = response]

\* the request suspended on a call of fs.promises
Awaiting(r, call) == [r EXCEPT !.pc = call]

\* the first await when add and rewrite write without making directories
FirstCallNoMkdir(op) ==
    CASE op = "delete" -> "unlink"
      [] op = "update" -> "readFile"
      [] OTHER -> "writeFile"

\* the first await of applyParsedPatch / rewriteFile after withinRoot
FirstCall(op) ==
    CASE op = "delete" -> "unlink"
      [] op = "update" -> "readFile"
      [] OTHER -> "mkdir"

\* Resolved without the throw of withinRoot: the request goes on regardless
ResolvedUnchecked(r, w) == Awaiting([r EXCEPT !.within = w], FirstCall(r.op))

\* applyParsedPatch / rewriteFile up to the first call of fs.promises
Resolved(r, w) ==
    IF ~w.ok THEN Answered([r EXCEPT !.within = w], ErrorResponse(w.error))
    ELSE Awaiting([r EXCEPT !.within = w], FirstCall(r.op))

\* the 'end' handler answering a parse failure with a message of its own
ApplyPatchEndGeneric(body, root) ==
    LET r0 == [Idle EXCEPT !.url = "/mcp/apply_patch"]
    IN  IF ~body.valid THEN Answered(r0, ErrorResponse(JsonSyntaxError))
        ELSE LET parsed == parseSimplifiedPatch(StringOr(Field(body, "patch")))
             IN  IF ~parsed.ok THEN Answered(r0, ErrorResponse("Bad Request"))
                 ELSE Resolved([r0 EXCEPT !.relPath = parsed.path,
                                          !.op = parsed.op,
                                          !.hunks = parsed.hunks,
                                          !.content = parsed.newContent],
                               withinRoot(root, parsed.path))

\* the 'end' handler of POST /mcp/apply_patch
ApplyPatchEnd(body, root) ==
    LET r0 == [Idle EXCEPT !.url = "/mcp/apply_patch"]
    IN  IF ~body.valid THEN Answered(r0, ErrorResponse(JsonSyntaxError))
        ELSE LET parsed == parseSimplifiedPatch(StringOr(Field(body, "patch")))
             IN  IF ~parsed.ok THEN Answered(r0, ErrorResponse(parsed.error))
                 ELSE Resolved([r0 EXCEPT !.relPath = parsed.path,
                                          !.op = parsed.op,
                                          !.hunks = parsed.hunks,
                                          !.content = parsed.newContent],
                               withinRoot(root, parsed.path))

\* the 'end' handler with JSON.parse and the path test outside its try: a
\* throw there ends the handler without a response
RewriteFileEndUncaught(body, root) ==
    LET r0 == [Idle EXCEPT !.url = "/mcp/rewrite_file"]
        relPath == Field(body, "path")
        content == Field(body, "content")
    IN  IF ~body.valid THEN Answered(r0, NoResponse)
        ELSE IF relPath.t # "string" \/ Trim(relPath.s) = ""
        THEN Answered(r0, NoResponse)
        ELSE Resolved([r0 EXCEPT !.relPath = relPath.s,
                                 !.op = "rewrite",
                                 !.content = IF content.t = "string"
                                             THEN content.s ELSE ""],
                      withinRoot(root, relPath.s))

\* the 'end' handler of POST /mcp/rewrite_file
RewriteFileEnd(body, root) ==
    LET r0 == [Idle EXCEPT !.url = "/mcp/rewrite_file"]
        relPath == Field(body, "path")
        content == Field(body, "content")
    IN  IF ~body.valid THEN Answered(r0, ErrorResponse(JsonSyntaxError))
        ELSE IF relPath.t # "string" \/ Trim(relPath.s) = ""
        THEN Answered(r0, ErrorResponse(MissingPath))
        ELSE Resolved([r0 EXCEPT !.relPath = relPath.s,
                                 !.op = "rewrite",
                                 !.content = IF content.t = "string"
                                             THEN content.s ELSE ""],
                      withinRoot(root, relPath.s))

\* a call of fs.promises has been made: its name and its path
Called(r, call, path) == [r EXCEPT !.calls = Append(@, <<call, path>>)]

\* await fs.unlink(abs) without the catch: a failed unlink is the answer
AfterUnlinkThrowing(r, f) ==
    LET u == FsUnlink(f, r.within.abs)
        r1 == Called(r, "unlink", r.within.abs)
    IN  [fs |-> u.fs,
         req |-> IF u.ok THEN Answered(r1, OkResponse(r.relPath, r.op))
                 ELSE Answered(r1, ErrorResponse(u.error))]

\* await fs.unlink(abs).catch(() => {}) and the answer after it
AfterUnlink(r, f) ==
    [fs |-> FsUnlink(f, r.within.abs).fs,
     req |-> Answered(Called(r, "unlink", r.within.abs),
                      OkResponse(r.relPath, r.op))]

\* await fs.mkdir(path.dirname(abs), { recursive: true })
AfterMkdir(r, f) ==
    LET dir == PathDirname(r.within.abs)
        m == FsMkdir(f, dir)
        r1 == Called(r, "mkdir", dir)
    IN  [fs |-> m.fs,
         req |-> IF m.ok THEN Awaiting(r1, "writeFile")
                 ELSE Answered(r1, ErrorResponse(m.error))]

\* a failed read taken as an empty original: the update goes on to write
AfterReadFileDefaulting(r, f) ==
    LET rd == FsReadFile(f, r.within.abs)
        r1 == Called(r, "readFile", r.within.abs)
    IN  [fs |-> f,
         req |-> Awaiting([r1 EXCEPT !.original = rd.data,
                                     !.content = UpdateText(rd.data, r.hunks)],
                          "writeFile")]

\* original = await fs.readFile(abs, "utf8"), the splices, and finalText
AfterReadFile(r, f) ==
    LET rd == FsReadFile(f, r.within.abs)
        r1 == Called(r, "readFile", r.within.abs)
    IN  [fs |-> f,
         req |-> IF rd.ok
                 THEN Awaiting([r1 EXCEPT !.original = rd.data,
                                          !.content = UpdateText(rd.data, r.hunks)],
                               "writeFile")
                 ELSE Answered(r1, ErrorResponse(NotFoundError(r.relPath)))]

\* AfterWriteFile of an update that splices the file as it is when written
AfterWriteFileMerging(r, f) ==
    LET text == IF r.op = "update" /\ IsFile(f, r.within.abs)
                THEN UpdateText(f.files[r.within.abs], r.hunks)
                ELSE r.content
        w == FsWriteFile(f, r.within.abs, text)
        r1 == Called([r EXCEPT !.content = text], "writeFile", r.within.abs)
    IN  [fs |-> w.fs,
         req |-> IF w.ok THEN Answered(r1, OkResponse(r.relPath, r.op))
                 ELSE Answered(r1, ErrorResponse(w.error))]

\* AfterWriteFile appending to the file there is instead of replacing it
AfterWriteFileAppending(r, f) ==
    LET text == IF IsFile(f, r.within.abs)
                THEN f.files[r.within.abs] \o r.content
                ELSE r.content
        w == FsWriteFile(f, r.within.abs, text)
        r1 == Called(r, "writeFile", r.within.abs)
    IN  [fs |-> w.fs,
         req |-> IF w.ok THEN Answered(r1, OkResponse(r.relPath, r.op))
                 ELSE Answered(r1, ErrorResponse(w.error))]

\* AfterWriteFile resolving the path again, against the root as it is when
\* the write is made
AfterWriteFileReresolving(r, f) ==
    LET abs == withinRoot(getWorkspaceRoot, r.relPath).abs
        w == FsWriteFile(f, abs, r.content)
        r1 == Called(r, "writeFile", abs)
    IN  [fs |-> w.fs,
         req |-> IF w.ok THEN Answered(r1, OkResponse(r.relPath, r.op))
                 ELSE Answered(r1, ErrorResponse(w.error))]

\* await fs.writeFile(abs, ..., "utf8") and the answer after it
AfterWriteFile(r, f) ==
    LET w == FsWriteFile(f, r.within.abs, r.content)
        r1 == Called(r, "writeFile", r.within.abs)
    IN  [fs |-> w.fs,
         req |-> IF w.ok THEN Answered(r1, OkResponse(r.relPath, r.op))
                 ELSE Answered(r1, ErrorResponse(w.error))]

\* the step of a suspended request: its pending call and what follows it
AfterCall(r, f) ==
    CASE r.pc = "unlink" -> AfterUnlink(r, f)
      [] r.pc = "mkdir" -> AfterMkdir(r, f)
      [] r.pc = "readFile" -> AfterReadFile(r, f)
      [] r.pc = "writeFile" -> AfterWriteFile(r, f)


(***************************************************************************)
(* The server: requests to /mcp/*, POST /state, and the filesystem         *)
(***************************************************************************)
\* requests received in a run, and POST /state requests handled in a run
MaxRequests == 2

MaxPosts == 1

\* the request of the end-to-end scenario of the specification
ScenarioPatch ==
    "*** Begin Patch\n*** Update File: a.txt\n@@ -2,1 +2,1 @@\n-two\n+TWO\n*** End Patch"

SecondPatch ==
    "*** Begin Patch\n*** Update File: a.txt\n@@ -1,1 +1,2 @@\n-one\n+ONE\n+uno\n*** End Patch"

PatchTexts ==
    { ScenarioPatch,
      SecondPatch,
      "*** Begin Patch\n*** Update File: ../outside/a.txt\n@@ -1,1 +1,1 @@\n-a\n+b\n*** End Patch",
      "*** Begin Patch\n*** Add File: d/x.txt\n+foo\n+bar\n*** End Patch",
      "*** Begin Patch\n*** Add File: ../outside/new.txt\n+foo\n*** End Patch",
      "*** Begin Patch\n*** Delete File: a.txt\n*** End Patch",
      "*** Begin Patch\n*** Delete File: /etc/passwd\n*** End Patch" }

PatchBodies == {JsonObject([patch |-> JString(t)]) : t \in PatchTexts}

RewriteBodies ==
    { JsonObject([path |-> JString("d/e/y.txt"), content |-> JString("hello\n")]),
      JsonObject([path |-> JString("../outside/b.txt"), content |-> JString("x")]) }

\* the values POST /state sets rootDir to
PostedRoots == {"/a/b", "."}

InitFs ==
    [dirs |-> {"/", "/ws", "/a", "/a/b", "/a/bc", "/outside", "/etc"},
     files |-> [q \in {"/ws/a.txt", "/a/b/a.txt", "/a/bc/evil",
                       "/outside/a.txt", "/etc/passwd"} |->
                   CASE q = "/ws/a.txt" -> "one\ntwo\nthree\n"
                     [] q = "/a/b/a.txt" -> "uno\r\ndos\r\n"
                     [] OTHER -> "secret\n"]]

NotCalled == [called |-> FALSE]

\* activeLmAbortController = null
Null == 0

\* a connection slot with no POST /state, no POST /chat, no request on it
NoStatePost == [pc |-> "idle", data |-> <<>>, res |-> NoResponse]

\* no tool call pending
NoTool == [name |-> "", path |-> "", content |-> ""]

\* rounds, fetches, executed and outcome are the history of the request:
\* the model rounds begun, the fetches of the current round, the calls of
\* executeTool, the outcome of the last awaited call
NoChat ==
    [pc |-> "idle", depth |-> 0, attempt |-> 0, aborted |-> FALSE,
     heartbeat |-> FALSE, toolsPayload |-> FALSE, tool |-> NoTool,
     rounds |-> 0, fetches |-> 0, executed |-> 0, outcome |-> "",
     events |-> <<>>, ended |-> 0]

\* ends counts the calls of res.end(), by the listeners that made them,
\* pending the listeners whose handler is suspended
NoRequest ==
    [pc |-> "idle", method |-> "", url |-> "", ends |-> 0, by |-> {},
     pending |-> {}]

\* the dashboard server's handlers at rest, runtime.json as initRuntime
\* read or wrote it
ControlAtRest ==
    /\ runtimeJson = cache
    /\ post = [p \in Procs |-> NoStatePost]
    /\ chat = [p \in Procs |-> NoChat]
    /\ activeLmAbortController = Null
    /\ abortResponses = <<>>
    /\ http = [p \in Procs |-> NoRequest]

\* the server after start-up: rootDir "." unless MCP_ROOT_DIR is set
InitServer ==
    /\ dashboardState = [rootDir |-> OrElse(EnvMcpRootDir, ".")]
    /\ cache = [rootDir |-> OrElse(EnvMcpRootDir, ".")]
    /\ ControlAtRest
    /\ fs = InitFs
    /\ req = [p \in Procs |-> Idle]
    /\ served = 0
    /\ posted = 0

Init ==
    /\ InitServer
    /\ fin = NotCalled
    /\ fout = NotCalled

\* a root fixed when the engine is attached: MCP_ROOT_DIR or the cwd
getRootAtAttach == PathResolve(<< OrElse(EnvMcpRootDir, Cwd) >>)

\* the root provider handed to attachMCPToServer
getRoot == getWorkspaceRoot

\* the connection slot of the next request
NextSlot == (served % Cardinality(Procs)) + 1

\* a request's body has been received and its 'end' handler has run
Receive(p, r) ==
    /\ p = NextSlot
    /\ served < MaxRequests
    /\ req[p].pc \in {"idle", "done"}
    /\ req' = [req EXCEPT ![p] = r]
    /\ served' = served + 1
    /\ UNCHANGED <<dashboardState, cache, fs, posted, fin, fout>>
    /\ UNCHANGED ctlvars

PostApplyPatch(p) ==
    \E body \in PatchBodies : Receive(p, ApplyPatchEnd(body, getRoot))

PostRewriteFile(p) ==
    \E body \in RewriteBodies : Receive(p, RewriteFileEnd(body, getRoot))

\* the pending call of fs.promises of request p completes
Complete(p, call) ==
    /\ req[p].pc = call
    /\ LET a == AfterCall(req[p], fs)
       IN  /\ fs' = a.fs
           /\ req' = [req EXCEPT ![p] = a.req]
    /\ UNCHANGED <<dashboardState, cache, served, posted, fin, fout>>
    /\ UNCHANGED ctlvars

Unlink(p) == Complete(p, "unlink")

Mkdir(p) == Complete(p, "mkdir")

ReadFile(p) == Complete(p, "readFile")

WriteFile(p) == Complete(p, "writeFile")

\* POST /state with a rootDir: dashboardState and, in saveRuntime, the cache
PostState ==
    \E rootDir \in PostedRoots :
        /\ posted < MaxPosts
        /\ dashboardState' = [dashboardState EXCEPT !.rootDir = rootDir]
        /\ cache' = [cache EXCEPT !.rootDir = rootDir]
        /\ runtimeJson' = cache'
        /\ posted' = posted + 1
        /\ UNCHANGED <<fs, req, served, fin, fout>>
        /\ UNCHANGED <<post, chat, activeLmAbortController, abortResponses, http>>

Next ==
    \/ \E p \in Procs :
          \/ PostApplyPatch(p)
          \/ PostRewriteFile(p)
          \/ Unlink(p)
          \/ Mkdir(p)
          \/ ReadFile(p)
          \/ WriteFile(p)
    \/ PostState

Spec == Init /\ [][Next]_vars


(***************************************************************************)
(* Properties of the server                                                *)
(***************************************************************************)
\* withinRoot ran for the request and threw
Escaped(r) == r.url # "" /\ r.within.ROOT # "" /\ ~r.within.ok

\* C2: a request for which withinRoot fails is answered with that error by
\* the step that receives it, that step leaves the filesystem as it was, and
\* the request never makes a call of fs.promises (mkdir, readFile,
\* writeFile, unlink).
C2_RejectedBeforeAccess ==
    [][\A p \in Procs :
          Escaped(req'[p]) =>
              /\ req'[p].pc = "done"
              /\ req'[p].calls = <<>>
              /\ req'[p].res = ErrorResponse(req'[p].within.error)
              /\ (req'[p] # req[p] => fs' = fs)]_vars

C2_Witness ==
    /\ Escaped(req[1]) /\ req[1].op = "update" /\ req[1].res.status = 400
    /\ Escaped(req[2]) /\ req[2].op = "rewrite" /\ req[2].res.status = 400
    /\ fs = InitFs

ScenarioHunks == parseSimplifiedPatch(ScenarioPatch).hunks

\* the first request of a run is the scenario's: root /ws, a.txt as given
ScenarioServed ==
    /\ served = 1
    /\ req[1].pc = "done"
    /\ req[1].url = "/mcp/apply_patch"
    /\ req[1].op = "update"
    /\ req[1].relPath = "a.txt"
    /\ req[1].hunks = ScenarioHunks
    /\ req[1].within.ROOT = "/ws"
    /\ req[1].original = "one\ntwo\nthree\n"

\* C3: in the end-to-end scenario (root /ws, /ws/a.txt = "one\ntwo\nthree\n",
\* the patch replacing line 2 by TWO) the file ends as "one\nTWO\nthree\n"
\* and the response is {ok:true, path:"a.txt", op:"update"}.
C3_Scenario ==
    ScenarioServed =>
        /\ fs.files["/ws/a.txt"] = "one\nTWO\nthree\n"
        /\ req[1].res = OkResponse("a.txt", "update")

\* two finished updates of one path that read the same text
SameRead(p, q) ==
    /\ p # q
    /\ req[p].pc = "done" /\ req[q].pc = "done"
    /\ req[p].op = "update" /\ req[q].op = "update"
    /\ req[p].within.ok /\ req[q].within.ok
    /\ req[p].within.abs = req[q].within.abs
    /\ req[p].res.status = 200 /\ req[q].res.status = 200
    /\ req[p].original = req[q].original

\* C6: updates of one path are not serialized.  Whenever two updates of the
\* same path have both read the same original text and both answered
\* ok:true, each wrote the splice of that original by its own hunks alone,
\* and, these being the only two requests, the file holds one of the two
\* texts: the one written second, without the other request's change.
C6_LostUpdate ==
    \A p, q \in Procs :
        SameRead(p, q) =>
            /\ req[p].content = UpdateText(req[p].original, req[p].hunks)
            /\ req[q].content = UpdateText(req[q].original, req[q].hunks)
            /\ served = 2 =>
                   fs.files[req[p].within.abs] \in {req[p].content, req[q].content}

\* both read "one\ntwo\nthree\n" before either wrote; the second patch's
\* write landed first and the scenario's write replaced it
C6_Witness ==
    /\ SameRead(1, 2)
    /\ served = 2
    /\ req[1].original = "one\ntwo\nthree\n"
    /\ req[1].hunks = ScenarioHunks
    /\ req[2].hunks # ScenarioHunks
    /\ req[1].content # req[1].original
    /\ req[2].content # req[2].original
    /\ req[1].content # req[2].content
    /\ fs.files["/ws/a.txt"] = req[1].content
    /\ ~Includes(fs.files["/ws/a.txt"], "uno")

\* a is a directory above b
IsAncestor(a, b) == a # b /\ a \in AncestorsOf(b)

\* the request as its 'end' handler left it
Started(r) ==
    IF ~r.within.ok THEN r
    ELSE [r EXCEPT !.pc = FirstCall(r.op), !.res = NoResponse,
                   !.calls = <<>>, !.original = "",
                   !.content = IF r.op = "update" THEN "" ELSE r.content]

RECURSIVE RunToEnd(_, _)
\* a request run alone from filesystem f until it has answered
RunToEnd(r, f) ==
    IF r.pc = "done" THEN [fs |-> f, req |-> r]
    ELSE LET a == AfterCall(r, f) IN RunToEnd(a.req, a.fs)

\* request r1 run to its end, then request r2
Serial(r1, r2, f) ==
    LET a == RunToEnd(Started(r1), f)
        b == RunToEnd(Started(r2), a.fs)
    IN  [fs |-> b.fs, first |-> a.req, second |-> b.req]

\* the two requests of a run have both answered, and their targets differ
\* and do not contain one another
IndependentPair ==
    /\ served = 2
    /\ req[1].pc = "done" /\ req[2].pc = "done"
    /\ req[1].within.ROOT # "" /\ req[2].within.ROOT # ""
    /\ req[1].within.abs # req[2].within.abs
    /\ ~IsAncestor(req[1].within.abs, req[2].within.abs)
    /\ ~IsAncestor(req[2].within.abs, req[1].within.abs)

\* C7: two requests whose resolved targets are different paths, neither
\* above the other, end in the filesystem and with the two responses of the
\* serial executions, in either order, whatever the interleaving of their
\* filesystem steps.
C7_IndependentPaths ==
    IndependentPair =>
        LET s12 == Serial(req[1], req[2], InitFs)
            s21 == Serial(req[2], req[1], InitFs)
        IN  /\ fs = s12.fs /\ fs = s21.fs
            /\ req[1] = s12.first /\ req[2] = s12.second
            /\ req[1] = s21.second /\ req[2] = s21.first

\* an add and a rewrite below the same new directory, both written
C7_Witness ==
    /\ IndependentPair
    /\ req[1].op = "add" /\ req[2].op = "rewrite"
    /\ req[1].res.status = 200 /\ req[2].res.status = 200
    /\ PathDirname(req[1].within.abs) = "/ws/d"
    /\ PathDirname(req[2].within.abs) = "/ws/d/e"
    /\ IsFile(fs, req[1].within.abs) /\ IsFile(fs, req[2].within.abs)

\* the root in force: dashboardState.rootDir, "." being the cwd
CurrentRoot == IF dashboardState.rootDir = "." THEN Cwd ELSE dashboardState.rootDir

\* C8: the root is read anew by every request.  A request received in a
\* state resolves its path against the root dashboardState holds in that
\* state: its ROOT is that root, an accepted path begins with it, and a
\* refusal names it.
C8_RootPerCall ==
    [][\A p \in Procs :
          (served' = served + 1 /\ req'[p] # req[p] /\ req'[p].within.ROOT # "") =>
              /\ req'[p].within.ROOT = CurrentRoot
              /\ req'[p].within.ok => StartsWith(req'[p].within.abs, CurrentRoot)
              /\ ~req'[p].within.ok =>
                     req'[p].res = ErrorResponse(SecurityError(req'[p].relPath, CurrentRoot))]_vars

\* the same relative path, resolved under /ws and, after POST /state, /a/b
C8_Witness ==
    /\ posted = 1 /\ served = 2
    /\ req[1].relPath = "a.txt" /\ req[2].relPath = "a.txt"
    /\ req[1].within.abs = "/ws/a.txt"
    /\ req[2].within.abs = "/a/b/a.txt"
    /\ req[2].res.status = 200
    /\ dashboardState.rootDir = "/a/b"


(***************************************************************************)
(* withinRoot as a function: roots and relative paths                      *)
(***************************************************************************)
\* segments of a relative path
MaxSegments == 3

Segments == {"..", ".", "b", "bc", "B", "x"}

RECURSIVE PathsOfLength(_)
PathsOfLength(n) ==
    IF n = 1 THEN Segments
    ELSE {q \o "/" \o sg : q \in PathsOfLength(n - 1), sg \in Segments}

RelPaths ==
    LET rel == UNION {PathsOfLength(n) : n \in 1..MaxSegments}
    IN  rel \cup {"/" \o q : q \in rel} \cup {"", "  "}

\* roots the provider returns: absolute and resolved
ResolveRoots == {"/a/b", "/a/bc", "/a"}

InitResolve ==
    /\ InitServer
    /\ fin \in {[called |-> TRUE, root |-> r, relPath |-> q] :
                   r \in ResolveRoots, q \in RelPaths}
    /\ fout = NotCalled

CallWithinRoot ==
    /\ ~fout.called
    /\ fout' = [called |-> TRUE, result |-> withinRoot(fin.root, fin.relPath)]
    /\ UNCHANGED <<dashboardState, cache, fs, req, served, posted, fin>>
    /\ UNCHANGED ctlvars

SpecResolve == InitResolve /\ [][CallWithinRoot]_vars

\* a is the directory R or lies below it
Below(R, a) == a = R \/ StartsWith(a, IF R = "/" THEN R ELSE R \o "/")

\* C1: for every root R and every relative path, withinRoot returns R
\* itself or a path that begins with R and a separator, or it fails with
\* the Security error; a sibling whose name only has R as a string prefix
\* (root /a/b, path ../bc/evil) is refused.
C1_Containment ==
    fout.called =>
        \/ fout.result.ok /\ Below(fin.root, fout.result.abs)
        \/ /\ ~fout.result.ok
           /\ fout.result.error = SecurityError(fin.relPath, fin.root)

(***************************************************************************)
(* parseSimplifiedPatch as a function: patch texts built from lines        *)
(***************************************************************************)
\* lines of a patch text after its first
MaxBodyLines == 3

\* first lines: marker says whether "*** Begin Patch" occurs in the line
FirstLines ==
    { [text |-> "*** Begin Patch", marker |-> TRUE, op |-> "none", path |-> ""],
      [text |-> "  *** Begin Patch", marker |-> TRUE, op |-> "none", path |-> ""],
      [text |-> "garbage", marker |-> FALSE, op |-> "none", path |-> ""],
      [text |-> "*** Delete File: first.txt", marker |-> FALSE,
       op |-> "delete", path |-> "first.txt"] }

\* later lines: op and path say what header the line is, if any
BodyLines ==
    { [text |-> "*** Add File: n.txt", marker |-> FALSE, op |-> "add", path |-> "n.txt"],
      [text |-> "*** Update File:  a.txt ", marker |-> FALSE, op |-> "update", path |-> "a.txt"],
      [text |-> "*** Delete File: d/x.txt", marker |-> FALSE, op |-> "delete", path |-> "d/x.txt"],
      [text |-> "*** Update File:  ", marker |-> FALSE, op |-> "update", path |-> ""],
      [text |-> "*** Begin Patch", marker |-> TRUE, op |-> "none", path |-> ""],
      [text |-> "@@ -1,1 +1,2 @@", marker |-> FALSE, op |-> "none", path |-> ""],
      [text |-> "+foo", marker |-> FALSE, op |-> "none", path |-> ""] }

RECURSIVE BodiesOfLength(_)
BodiesOfLength(n) ==
    IF n = 0 THEN {<<>>}
    ELSE {Append(b, l) : b \in BodiesOfLength(n - 1), l \in BodyLines}

\* the text of a sequence of lines, each line but the last ended by eol
TextOf(ls, eol) == Join([i \in 1..Len(ls) |-> ls[i].text], eol)

InitParse ==
    /\ InitServer
    /\ \E f \in FirstLines, n \in 0..MaxBodyLines, eol \in {"\n", "\r\n"} :
          \E b \in BodiesOfLength(n) :
              fin = [called |-> TRUE, lines |-> <<f>> \o b,
                     raw |-> TextOf(<<f>> \o b, eol)]
    /\ fout = NotCalled

CallParse ==
    /\ ~fout.called
    /\ fout' = [called |-> TRUE, parsed |-> parseSimplifiedPatch(fin.raw)]
    /\ UNCHANGED <<dashboardState, cache, fs, req, served, posted, fin>>
    /\ UNCHANGED ctlvars

SpecParse == InitParse /\ [][CallParse]_vars

\* the marker occurs in the text before its first line feed
MarkerOnFirstLine(raw) ==
    \E k \in 1..Len(raw) :
        /\ StartsWithAt(raw, BeginMarker, k)
        /\ \A j \in 1..(k - 1) : SubSeq(raw, j, j) # "\n"

\* C9: the parser fails with the missing-begin-marker error exactly when
\* the first line of the text does not contain "*** Begin Patch", and so
\* never when the text starts with the marker.
C9_BeginMarker ==
    fout.called =>
        /\ (fout.parsed.error = MissingBegin) <=> ~MarkerOnFirstLine(fin.raw)
        /\ (fout.parsed.error = MissingBegin) <=> ~fin.lines[1].marker
        /\ StartsWith(fin.raw, BeginMarker) => fout.parsed.error # MissingBegin

\* the marker is in the text, but not on its first line
C9_Witness ==
    /\ fout.called
    /\ fout.parsed.error = MissingBegin
    /\ Includes(fin.raw, BeginMarker)

\* the header lines of the input, in source order
HeaderIndexes == {i \in 1..Len(fin.lines) : fin.lines[i].op # "none"}

FirstHeader == fin.lines[MinOf(HeaderIndexes)]

\* what first-header-wins asks of the result
FirstHeaderWins ==
    IF HeaderIndexes # {} /\ FirstHeader.path # ""
    THEN /\ fout.parsed.ok
         /\ fout.parsed.op = FirstHeader.op
         /\ fout.parsed.path = FirstHeader.path
    ELSE /\ ~fout.parsed.ok
         /\ fout.parsed.error = MissingHeader

\* C10 as stated: for every patch text, the parsed op and path are those of
\* the first header line, and a text with no header line, or whose first
\* header has an empty path, fails with the missing-operation-header error.
C10_FirstHeaderWins_AnyText == fout.called => FirstHeaderWins

\* C10 amended: the same, for a text whose first line carries the begin
\* marker; a text without it fails with the missing-begin-marker error
\* whatever its headers.
C10_FirstHeaderWins ==
    fout.called =>
        IF fin.lines[1].marker THEN FirstHeaderWins
        ELSE ~fout.parsed.ok /\ fout.parsed.error = MissingBegin

\* two headers of different ops, the first of them parsed
C10_Witness ==
    /\ fout.called
    /\ fout.parsed.ok
    /\ Cardinality(HeaderIndexes) >= 2
    /\ fin.lines[MaxOf(HeaderIndexes)].op # FirstHeader.op
    /\ fout.parsed.op = FirstHeader.op

(***************************************************************************)
(* The update as a function: file texts and hunk lists                     *)
(***************************************************************************)
\* the largest oldRange.start and oldRange.count of a hunk
MaxStart == 4

MaxCount == 2

\* files: the lines split("\n") is to give, and the line end of the text
Files ==
    { [lines |-> <<"a", "b", "c">>, eol |-> "\n"],
      [lines |-> <<"a", "b", "c", "d", "">>, eol |-> "\n"],
      [lines |-> <<"a", "b", "">>, eol |-> "\r\n"],
      [lines |-> <<"">>, eol |-> "\n"] }

HunkBodies ==
    { <<>>,
      << [type |-> "remove", text |-> "a"], [type |-> "add", text |-> "x"] >>,
      << [type |-> "context", text |-> " k"], [type |-> "add", text |-> "y"],
         [type |-> "remove", text |-> "q"], [type |-> "add", text |-> "z"] >> }

Hunks ==
    { [oldRange |-> [start |-> st, count |-> ct],
       newRange |-> [start |-> st, count |-> ct],
       lines |-> b] : st \in 0..MaxStart, ct \in 0..MaxCount, b \in HunkBodies }

\* the hunk lists of an update: none, one or two hunks
HunkLists ==
    {<<>>} \cup {<<h>> : h \in Hunks} \cup {<<h, g>> : h \in Hunks, g \in Hunks}

InitUpdate ==
    /\ InitServer
    /\ \E f \in Files, hs \in HunkLists :
          fin = [called |-> TRUE, lines |-> f.lines,
                 original |-> Join(f.lines, f.eol), hunks |-> hs]
    /\ fout = NotCalled

CallUpdate ==
    /\ ~fout.called
    /\ fout' = [called |-> TRUE, text |-> UpdateText(fin.original, fin.hunks)]
    /\ UNCHANGED <<dashboardState, cache, fs, req, served, posted, fin>>
    /\ UNCHANGED ctlvars

SpecUpdate == InitUpdate /\ [][CallUpdate]_vars

\* the first n elements of s, and s without them
Take(s, n) == SubSeq(s, 1, IF n < 0 THEN 0 ELSE IF n > Len(s) THEN Len(s) ELSE n)

Drop(s, n) == SubSeq(s, (IF n < 0 THEN 0 ELSE IF n > Len(s) THEN Len(s) ELSE n) + 1, Len(s))

\* the texts of the add and context lines of a hunk, in hunk order
Kept(h) ==
    LET K == {i \in 1..Len(h.lines) : h.lines[i].type # "remove"}
        nth(k) == CHOOSE i \in K : Cardinality({j \in K : j < i}) = k - 1
    IN  [k \in 1..Cardinality(K) |-> h.lines[nth(k)].text]

\* count lines deleted at the zero-based index idx, block inserted there
Replaced(ls, idx, count, block) == Take(ls, idx) \o block \o Drop(ls, idx + count)

\* the hunk's lines are the non-empty range [start, start+count) of the
\* untouched file, and its block has another length than its count
InRange(h, from, ls) ==
    /\ h.oldRange.start >= from
    /\ h.oldRange.count >= 1
    /\ h.oldRange.start + h.oldRange.count - 1 <= Len(ls)
    /\ Len(Kept(h)) # h.oldRange.count

\* C4: for two non-overlapping hunks in ascending order, with ranges in the
\* untouched file's numbering and blocks of another length than their
\* counts, the file written is the original with each of the two ranges
\* replaced by its own block, every other line kept in order.  (The text
\* may end with one line feed more than the lines joined.)
C4_MultiHunk ==
    (fout.called /\ Len(fin.hunks) = 2) =>
        LET h == fin.hunks[1]
            g == fin.hunks[2]
            ls == fin.lines
            expected ==
                Take(ls, h.oldRange.start - 1) \o Kept(h)
                    \o SubSeq(ls, h.oldRange.start + h.oldRange.count,
                              g.oldRange.start - 1)
                    \o Kept(g)
                    \o Drop(ls, g.oldRange.start + g.oldRange.count - 1)
        IN  (/\ InRange(h, 1, ls)
             /\ InRange(g, h.oldRange.start + h.oldRange.count, ls)) =>
                fout.text \in {Join(expected, "\n"), Join(expected, "\n") \o "\n"}

RECURSIVE ExactFold(_, _)
\* each hunk deleting exactly its count at index start-1
ExactFold(ls, hs) ==
    IF Len(hs) = 0 THEN ls
    ELSE ExactFold(Replaced(ls, Head(hs).oldRange.start - 1,
                            Head(hs).oldRange.count, Kept(Head(hs))),
                   Tail(hs))

\* C5 as stated: for every file and every hunk list the text written is
\* the lines of the file, each hunk in patch order deleting exactly
\* oldRange.count lines at zero-based index oldRange.start-1 and inserting
\* its add and context lines there, joined by LF with one LF appended.
C5_UpdateAlgorithm_AnyHunk ==
    fout.called => fout.text = Join(ExactFold(fin.lines, fin.hunks), "\n") \o "\n"

\* the index of a hunk on a sequence of n lines: start-1, and for start 0
\* the last line
IndexOn(h, n) ==
    IF h.oldRange.start = 0 THEN (IF n > 0 THEN n - 1 ELSE 0)
    ELSE h.oldRange.start - 1

RECURSIVE ReferenceFold(_, _)
ReferenceFold(ls, hs) ==
    IF Len(hs) = 0 THEN ls
    ELSE ReferenceFold(Replaced(ls, IndexOn(Head(hs), Len(ls)),
                                Head(hs).oldRange.count, Kept(Head(hs))),
                       Tail(hs))

\* C5 amended: the same computation, where a range that reaches past the
\* end of the lines deletes only the lines there are (the index being at
\* most the number of lines), and a hunk with oldRange.start 0 is spliced
\* at the last line, index length-1, not before the first.  Lines [a,b,c]
\* with the hunk @@ -1,1 +1,1 @@ removing a and adding x give [x,b,c].
C5_UpdateAlgorithm ==
    fout.called =>
        /\ fout.text = Join(ReferenceFold(fin.lines, fin.hunks), "\n") \o "\n"
        /\ (/\ fin.lines = <<"a", "b", "c">>
            /\ Len(fin.hunks) = 1
            /\ fin.hunks[1].oldRange = [start |-> 1, count |-> 1]
            /\ Kept(fin.hunks[1]) = <<"x">>) => fout.text = "x\nb\nc\n"

\* a CRLF file, a hunk with start 0 and a hunk past the end, both spliced
C5_Witness ==
    /\ fout.called
    /\ fin.lines = <<"a", "b", "">>
    /\ Includes(fin.original, "\r\n")
    /\ Len(fin.hunks) = 2
    /\ fin.hunks[1].oldRange = [start |-> 0, count |-> 1]
    /\ fin.hunks[2].oldRange = [start |-> 4, count |-> 2]
    /\ Len(Kept(fin.hunks[1])) = 1
    /\ Len(Kept(fin.hunks[2])) = 3

(***************************************************************************)
(* parseSimplifiedPatch on the bodies of Add and Update patches            *)
(***************************************************************************)
\* lines of a patch text after its begin marker and its header
MaxPatchLines == 3

\* a line of a patch body: kind and val say what the line is inside a hunk
\* (val the text kept), start and count the old range of a hunk header
PatchLine(text, kind, val, start, count) ==
    [text |-> text, kind |-> kind, val |-> val, start |-> start, count |-> count]

PatchLines ==
    { PatchLine("+foo", "add", "foo", 0, 0),
      PatchLine("+bar", "add", "bar", 0, 0),
      PatchLine("+++ b/n.txt", "context", "+++ b/n.txt", 0, 0),
      PatchLine("-old", "remove", "old", 0, 0),
      PatchLine("--- a/n.txt", "context", "--- a/n.txt", 0, 0),
      PatchLine("  ctx", "context", "  ctx", 0, 0),
      PatchLine("", "context", "", 0, 0),
      PatchLine("@@ -1,1 +1,2 @@", "hunk", "", 1, 1),
      PatchLine("@@ -12,0 +13,1 @@ fn", "hunk", "", 12, 0),
      PatchLine("*** End Patch", "skip", "", 0, 0) }

PatchHeaders ==
    { PatchLine("*** Add File: n.txt", "skip", "", 0, 0),
      PatchLine("*** Update File: n.txt", "skip", "", 0, 0) }

RECURSIVE PatchLinesOfLength(_)
PatchLinesOfLength(n) ==
    IF n = 0 THEN {<<>>}
    ELSE {Append(b, l) : b \in PatchLinesOfLength(n - 1), l \in PatchLines}

InitBody ==
    /\ InitServer
    /\ \E h \in PatchHeaders, n \in 0..MaxPatchLines, eol \in {"\n", "\r\n"} :
          \E b \in PatchLinesOfLength(n) :
              LET ls == <<PatchLine(BeginMarker, "skip", "", 0, 0), h>> \o b
              IN  fin = [called |-> TRUE, lines |-> ls, raw |-> TextOf(ls, eol)]
    /\ fout = NotCalled

SpecBody == InitBody /\ [][CallParse]_vars

RECURSIVE PlusLines(_)
\* every add line of ls, in order, each followed by a line feed
PlusLines(ls) ==
    IF Len(ls) = 0 THEN ""
    ELSE (IF Head(ls).kind = "add" THEN Head(ls).val \o "\n" ELSE "")
             \o PlusLines(Tail(ls))

\* C11: the content of an Add patch is the text of every line that begins
\* with "+" and is not a "+++" marker line, in source order, without its
\* leading "+", each followed by one line feed (so joined by line feeds with
\* one trailing line feed, and empty when there is no such line); the two
\* lines +foo and +bar give "foo\nbar\n".
C11_AddContent ==
    (fout.called /\ fout.parsed.op = "add") =>
        /\ fout.parsed.newContent = PlusLines(fin.lines)
        /\ fout.parsed.hunks = <<>>
        /\ (\A i \in 3..Len(fin.lines) : fin.lines[i].kind # "add") =>
               fout.parsed.newContent = ""
        /\ (/\ Len(fin.lines) = 4
            /\ fin.lines[3].text = "+foo"
            /\ fin.lines[4].text = "+bar") => fout.parsed.newContent = "foo\nbar\n"

\* +foo, a "+++" marker line, +bar: the marker line left out
C11_Witness ==
    /\ fout.called
    /\ fout.parsed.op = "add"
    /\ Len(fin.lines) = 5
    /\ fin.lines[3].text = "+foo"
    /\ fin.lines[4].text = "+++ b/n.txt"
    /\ fin.lines[5].text = "+bar"
    /\ fout.parsed.newContent = "foo\nbar\n"

\* the k-th smallest element of a set of numbers
Nth(K, k) == CHOOSE i \in K : Cardinality({j \in K : j < i}) = k - 1

\* the positions of the hunk header lines of ls
HunkHeaderIndexes(ls) == {i \in 1..Len(ls) : ls[i].kind = "hunk"}

\* the lines of ls from position from to position to that a hunk keeps:
\* add, remove and context lines, in source order, with the text kept
ClassifiedBetween(ls, from, to) ==
    LET K == {j \in from..to : ls[j].kind \in {"add", "remove", "context"}}
    IN  [k \in 1..Cardinality(K) |->
            [type |-> ls[Nth(K, k)].kind, text |-> ls[Nth(K, k)].val]]

\* one hunk per hunk header line, in source order, each with the lines up
\* to the next hunk header line or the end of the input
ExpectedHunks(ls) ==
    LET H == HunkHeaderIndexes(ls)
        endOf(k) == IF k < Cardinality(H) THEN Nth(H, k + 1) - 1 ELSE Len(ls)
    IN  [k \in 1..Cardinality(H) |->
            [oldRange |-> [start |-> ls[Nth(H, k)].start,
                           count |-> ls[Nth(H, k)].count],
             lines |-> ClassifiedBetween(ls, Nth(H, k) + 1, endOf(k))]]

\* C12: in an Update patch each hunk header line opens a new hunk, and each
\* line after it, up to the next hunk header line or the end of the input,
\* is an add line ("+" but not "+++", the "+" stripped), a remove line ("-"
\* but not "---", the "-" stripped), skipped (it starts with "***" or "@@")
\* or else a context line whose text is the line as given, leading white
\* space included (a "+++" or "---" line is such a context line); hunks and
\* lines keep source order.
C12_LineClassification ==
    (fout.called /\ fout.parsed.op = "update") =>
        LET expected == ExpectedHunks(fin.lines)
            hunks == fout.parsed.hunks
        IN  /\ Len(hunks) = Len(expected)
            /\ \A k \in 1..Len(expected) :
                   /\ hunks[k].oldRange = expected[k].oldRange
                   /\ hunks[k].lines = expected[k].lines

\* two hunks in a CRLF text, the first with a context line that begins
\* with blanks, the second opened by the next header and left empty
C12_Witness ==
    /\ fout.called
    /\ fout.parsed.op = "update"
    /\ Len(fout.parsed.hunks) = 2
    /\ fout.parsed.hunks[1].lines =
           << [type |-> "context", text |-> "  ctx"] >>
    /\ fout.parsed.hunks[2].oldRange = [start |-> 12, count |-> 0]
    /\ fout.parsed.hunks[2].lines = <<>>
    /\ Includes(fin.raw, "\r\n")

(***************************************************************************)
(* The server on a workspace where calls of fs.promises can fail, with     *)
(* bodies that are not well formed among its requests                      *)
(***************************************************************************)
\* /ws holds the file a.txt and the directory sub with one file
IoFs ==
    [dirs |-> {"/", "/ws", "/ws/sub"},
     files |-> [q \in {"/ws/a.txt", "/ws/sub/k.txt"} |->
                   IF q = "/ws/a.txt" THEN "one\ntwo\nthree\n" ELSE "keep\n"]]

\* a JSON object without keys
EmptyObject == JsonObject(<<>>)

\* a body of POST /mcp/apply_patch, with the Format error its patch text
\* has: "json" (no JSON), "begin", "header", or "none"
PatchInput(body, fmt) == [body |-> body, fmt |-> fmt]

PatchOf(text) == JsonObject([patch |-> JString(text)])

\* Add patches, with the path and the content they are to write
AddInput(text, path, content) == [text |-> text, path |-> path, content |-> content]

IoAddInputs ==
    { AddInput("*** Begin Patch\n*** Add File: n/m/x.txt\n+foo\n+bar\n*** End Patch",
               "n/m/x.txt", "foo\nbar\n"),
      AddInput("*** Begin Patch\n*** Add File: a.txt\n+new\n*** End Patch",
               "a.txt", "new\n"),
      AddInput("*** Begin Patch\n*** Add File: a.txt/x.txt\n+foo\n*** End Patch",
               "a.txt/x.txt", "foo\n"),
      AddInput("*** Begin Patch\n*** Add File: sub\n+foo\n*** End Patch",
               "sub", "foo\n") }

IoPatchInputs ==
    { PatchInput(Invalid, "json"),
      PatchInput(EmptyObject, "begin"),
      PatchInput(JsonObject([patch |-> JNumber(5)]), "begin"),
      PatchInput(PatchOf("*** Begin Patch\n*** End Patch"), "header"),
      PatchInput(PatchOf("*** Begin Patch\n*** Delete File: gone.txt\n*** End Patch"), "none"),
      PatchInput(PatchOf("*** Begin Patch\n*** Delete File: a.txt\n*** End Patch"), "none"),
      PatchInput(PatchOf("*** Begin Patch\n*** Delete File: sub\n*** End Patch"), "none"),
      PatchInput(PatchOf("*** Begin Patch\n*** Update File: missing.txt\n@@ -1,1 +1,1 @@\n-a\n+b\n*** End Patch"), "none") }
        \cup {PatchInput(PatchOf(a.text), "none") : a \in IoAddInputs}

\* a body of POST /mcp/rewrite_file, with the error it is answered with
\* before any call ("" when it has a usable path), and else the path and the
\* content the request is to use
RewriteInput(body, error, path, content) ==
    [body |-> body, error |-> error, path |-> path, content |-> content]

IoRewriteInputs ==
    { RewriteInput(Invalid, JsonSyntaxError, "", ""),
      RewriteInput(JsonObject([content |-> JString("x")]), MissingPath, "", ""),
      RewriteInput(JsonObject([path |-> JNumber(7), content |-> JString("x")]),
                   MissingPath, "", ""),
      RewriteInput(JsonObject([path |-> JString(" \t"), content |-> JString("x")]),
                   MissingPath, "", ""),
      RewriteInput(JsonObject([path |-> JString("a.txt"), content |-> JString("")]),
                   "", "a.txt", ""),
      RewriteInput(JsonObject([path |-> JString("n/m/y.txt"), content |-> JNumber(7)]),
                   "", "n/m/y.txt", ""),
      RewriteInput(JsonObject([path |-> JString("n/m/y.txt")]), "", "n/m/y.txt", ""),
      RewriteInput(JsonObject([path |-> JString("n/m/y.txt"),
                               content |-> JString("hello\n")]),
                   "", "n/m/y.txt", "hello\n"),
      RewriteInput(JsonObject([path |-> JString("sub"), content |-> JString("x")]),
                   "", "sub", "x") }

InitIo ==
    /\ dashboardState = [rootDir |-> OrElse(EnvMcpRootDir, ".")]
    /\ cache = [rootDir |-> OrElse(EnvMcpRootDir, ".")]
    /\ ControlAtRest
    /\ fs = IoFs
    /\ req = [p \in Procs |-> Idle]
    /\ served = 0
    /\ posted = 0
    /\ fin = NotCalled
    /\ fout = NotCalled

IoApplyPatch(p) ==
    \E i \in IoPatchInputs : Receive(p, ApplyPatchEnd(i.body, getRoot))

IoRewriteFile(p) ==
    \E i \in IoRewriteInputs : Receive(p, RewriteFileEnd(i.body, getRoot))

NextIo ==
    \E p \in Procs :
        \/ IoApplyPatch(p)
        \/ IoRewriteFile(p)
        \/ Unlink(p)
        \/ Mkdir(p)
        \/ ReadFile(p)
        \/ WriteFile(p)

SpecIo == InitIo /\ [][NextIo]_vars

\* the request is suspended on a call of fs.promises
Suspended(r) == r.pc \in {"unlink", "mkdir", "readFile", "writeFile"}

\* request p takes a step of its own: its pending call completes
Steps(p) == Suspended(req[p]) /\ req'[p] # req[p] /\ served' = served

\* the message of the failure of r's pending call on filesystem f, "" when
\* the call succeeds
PendingFailure(r, f) ==
    CASE r.pc = "unlink" -> FsUnlink(f, r.within.abs).error
      [] r.pc = "mkdir" -> FsMkdir(f, PathDirname(r.within.abs)).error
      [] r.pc = "readFile" -> FsReadFile(f, r.within.abs).error
      [] r.pc = "writeFile" -> FsWriteFile(f, r.within.abs, r.content).error

\* the pending call is the unlink of a path that does not exist
DeleteOfMissing(r, f) ==
    r.pc = "unlink" /\ ~IsFile(f, r.within.abs) /\ ~IsDir(f, r.within.abs)

\* C13: when a read, write, mkdir or unlink step of a request fails, and
\* the failure is not that of a delete whose target does not exist, the
\* request ends with status 400 and an error carrying the message of the
\* failure (for a failed read, that message or the Not-Found message); it
\* is never answered ok:true.
C13_IoErrorPropagation ==
    [][\A p \in Procs :
          (/\ Steps(p)
           /\ PendingFailure(req[p], fs) # ""
           /\ ~DeleteOfMissing(req[p], fs)) =>
              /\ req'[p].pc = "done"
              /\ req'[p].res.status = 400
              /\ \/ req'[p].res.body.error = PendingFailure(req[p], fs)
                 \/ /\ req[p].pc = "readFile"
                    /\ req'[p].res.body.error = NotFoundError(req[p].relPath)]_vars

\* the two requests of a run were Delete patches for one path, and both
\* have been answered
DeletedTwice ==
    /\ served = 2
    /\ \A p \in Procs :
          /\ req[p].pc = "done"
          /\ req[p].op = "delete"
          /\ req[p].within.ok
    /\ req[1].within.abs = req[2].within.abs

\* C14: the unlink step of a Delete patch answers {ok:true, path, op:
\* "delete"}, also when the path does not exist, and then it leaves the
\* filesystem as it was; after it the path is no file.  Two Delete patches
\* for one path are both answered ok:true and leave the filesystem as a
\* single one does.
C14_IdempotentDelete ==
    [][/\ \A p \in Procs :
             (Steps(p) /\ req[p].pc = "unlink") =>
                 /\ req'[p].pc = "done"
                 /\ req'[p].res = OkResponse(req[p].relPath, "delete")
                 /\ DeleteOfMissing(req[p], fs) => fs' = fs
                 /\ ~IsFile(fs', req[p].within.abs)
       /\ DeletedTwice' =>
             /\ \A p \in Procs : req'[p].res.status = 200
             /\ fs' = FsUnlink(IoFs, req'[1].within.abs).fs]_vars

\* a.txt deleted by the first request and found missing by the second
C14_Witness ==
    /\ DeletedTwice
    /\ req[1].within.abs = "/ws/a.txt"
    /\ req[1].res = OkResponse("a.txt", "delete")
    /\ req[2].res = OkResponse("a.txt", "delete")
    /\ ~IsFile(fs, "/ws/a.txt")
    /\ IsFile(fs, "/ws/sub/k.txt")

\* the call names among the calls of fs.promises a request has made
CallNames(r) == {r.calls[i][1] : i \in 1..Len(r.calls)}

\* C15: when the read of an Update patch's target fails, that step answers
\* status 400 with "File not found for update: <path>", leaves the
\* filesystem as it was, so that a target that did not exist still does not,
\* and the request has made and will make no call of writeFile.
C15_UpdateUnreadable ==
    [][\A p \in Procs :
          /\ (Steps(p) /\ req[p].pc = "readFile"
                 /\ PendingFailure(req[p], fs) # "") =>
                 /\ req'[p].pc = "done"
                 /\ req'[p].res = ErrorResponse(NotFoundError(req[p].relPath))
                 /\ fs' = fs
                 /\ IsFile(fs', req[p].within.abs) <=> IsFile(fs, req[p].within.abs)
          /\ (/\ req'[p].op = "update"
              /\ req'[p].res = ErrorResponse(NotFoundError(req'[p].relPath))) =>
                 "writeFile" \notin CallNames(req'[p])]_vars

\* the update of missing.txt has been answered, and there is no such file
C15_Witness ==
    \E p \in Procs :
        /\ req[p].pc = "done"
        /\ req[p].op = "update"
        /\ req[p].within.abs = "/ws/missing.txt"
        /\ req[p].res = ErrorResponse("File not found for update: missing.txt")
        /\ req[p].calls = << <<"readFile", "/ws/missing.txt">> >>
        /\ ~IsFile(fs, "/ws/missing.txt")

\* the message of a Format error
FormatMessage(fmt) == IF fmt = "begin" THEN MissingBegin ELSE MissingHeader

\* request p is received in this step and its 'end' handler leaves handled
Receives(p, handled) ==
    /\ served' = served + 1
    /\ p = NextSlot
    /\ req'[p] = handled

\* an answered apply_patch request whose patch was not parsed
Unparsed(r) == r.url = "/mcp/apply_patch" /\ r.pc = "done" /\ r.op = "none"

\* C16: a request whose patch text has no begin marker on its first line,
\* or no operation header with a path, is answered by the step that
\* receives it, with status 400 and the parser's message for that text; the
\* step leaves the filesystem as it was, the request has made no call of
\* fs.promises, and no later step of it follows (it is not retried).
C16_FormatErrors ==
    [][\A p \in Procs :
          /\ \A i \in IoPatchInputs :
                (/\ i.fmt \in {"begin", "header"}
                 /\ Receives(p, ApplyPatchEnd(i.body, getRoot))) =>
                    /\ req'[p].pc = "done"
                    /\ req'[p].calls = <<>>
                    /\ req'[p].res = ErrorResponse(FormatMessage(i.fmt))
                    /\ fs' = fs
          /\ (Unparsed(req[p]) /\ served' = served) => req'[p] = req[p]]_vars

\* a text without the marker and a text without a header, both answered
C16_Witness ==
    /\ served = 2
    /\ Unparsed(req[1]) /\ req[1].res = ErrorResponse(MissingBegin)
    /\ Unparsed(req[2]) /\ req[2].res = ErrorResponse(MissingHeader)
    /\ req[1].calls = <<>> /\ req[2].calls = <<>>
    /\ fs = IoFs

\* a response of one of the two shapes
Structured(res) ==
    \/ /\ res.status = 200
       /\ DOMAIN res.body = {"ok", "path", "op"}
       /\ res.body.ok = TRUE
    \/ /\ res.status = 400
       /\ DOMAIN res.body = {"error"}

\* the calls of fs.promises a request may still have to await
Rank(r) ==
    CASE r.pc \in {"mkdir", "readFile"} -> 2
      [] r.pc \in {"unlink", "writeFile"} -> 1
      [] OTHER -> 0

\* C17: a received request has no response while its handler runs and one
\* structured response once the handler has ended: status 200 with
\* {ok:true, path, op} and no error key, or status 400 with {error} and no
\* ok key, an unparsable JSON body and a body without a patch or a path
\* included.  The response, once given, is not given again or changed.
\* The handler always ends: a request is either answered by the step that
\* receives it or awaits a call of fs.promises, and each call that settles
\* brings it to its answer or to its last call.
C17_StructuredResults ==
    [][\A p \in Procs :
          /\ req'[p].pc = "done" => Structured(req'[p].res)
          /\ req'[p].pc # "done" => req'[p].res.status = 0
          /\ req'[p].url # "" => (req'[p].pc = "done" \/ Suspended(req'[p]))
          /\ (req[p].pc = "done" /\ served' = served) => req'[p] = req[p]
          /\ Suspended(req'[p]) => AfterCall(req'[p], fs').req # req'[p]
          /\ Steps(p) =>
                 /\ Rank(req'[p]) < Rank(req[p])
                 /\ Rank(req'[p]) = 0 <=> req'[p].pc = "done"]_vars

\* an unparsable body answered 400, a rewrite answered 200 after its calls
C17_Witness ==
    /\ req[1].pc = "done"
    /\ req[1].res = ErrorResponse(JsonSyntaxError)
    /\ req[2].pc = "done"
    /\ req[2].op = "rewrite"
    /\ req[2].res = OkResponse("n/m/y.txt", "rewrite")
    /\ Len(req[2].calls) = 2

\* the target of r is a directory, or a directory above it is a file: the
\* cases in which a write to it cannot succeed
Obstructed(r, f) ==
    \/ IsDir(f, r.within.abs)
    \/ \E a \in AncestorsOf(PathDirname(r.within.abs)) : IsFile(f, a)

\* what the steps of a request r that writes content to its target do: the
\* mkdir step makes every missing directory above the target and changes no
\* file, the writeFile step leaves the target with exactly the content and
\* answers ok:true, and a step fails only when the target is obstructed,
\* never because the file or a directory above it is missing
WritesTarget(r, r1, f, f1) ==
    /\ PendingFailure(r, f) # "" => Obstructed(r, f)
    /\ (r.pc = "mkdir" /\ PendingFailure(r, f) = "") =>
           /\ r1.pc = "writeFile"
           /\ AncestorsOf(PathDirname(r.within.abs)) \subseteq f1.dirs
           /\ f1.files = f.files
    /\ (r.pc = "writeFile" /\ PendingFailure(r, f) = "") =>
           /\ r1.pc = "done"
           /\ r1.res = OkResponse(r.relPath, r.op)
           /\ IsFile(f1, r.within.abs)
           /\ f1.files[r.within.abs] = r.content
           /\ IsDir(f1, PathDirname(r.within.abs))

\* C18: a rewrite_file request with a usable path inside the root takes the
\* content of its body, or "" when the body has none or one that is not a
\* string; its steps create the missing directories above the target and
\* leave the target with exactly that content, so that empty content on an
\* existing file leaves it with zero bytes; a step of it fails only when a
\* directory is in the place of the target or a file in the place of a
\* directory above it, never because they are missing.  A body whose path
\* is missing, not a string or only white space is answered with an error
\* by the step that receives it, which changes nothing.
C18_Rewrite ==
    [][\A p \in Procs :
          /\ \A i \in IoRewriteInputs :
                Receives(p, RewriteFileEnd(i.body, getRoot)) =>
                    IF i.error # ""
                    THEN /\ req'[p].pc = "done"
                         /\ req'[p].res = ErrorResponse(i.error)
                         /\ req'[p].calls = <<>>
                         /\ fs' = fs
                    ELSE /\ req'[p].pc = "mkdir"
                         /\ req'[p].op = "rewrite"
                         /\ req'[p].relPath = i.path
                         /\ req'[p].within.abs = "/ws/" \o i.path
                         /\ req'[p].content = i.content
                         /\ fs' = fs
          /\ (Steps(p) /\ req[p].op = "rewrite") =>
                 /\ WritesTarget(req[p], req'[p], fs, fs')
                 /\ (/\ req[p].pc = "writeFile"
                     /\ req[p].content = ""
                     /\ PendingFailure(req[p], fs) = "") =>
                        Len(fs'.files[req[p].within.abs]) = 0]_vars

\* a.txt rewritten to zero bytes, and n/m/y.txt written below new directories
C18_Witness ==
    /\ served = 2
    /\ req[1].res = OkResponse("a.txt", "rewrite")
    /\ req[2].res = OkResponse("n/m/y.txt", "rewrite")
    /\ IoFs.files["/ws/a.txt"] # ""
    /\ fs.files["/ws/a.txt"] = ""
    /\ ~IsDir(IoFs, "/ws/n")
    /\ IsDir(fs, "/ws/n/m")
    /\ fs.files["/ws/n/m/y.txt"] = "hello\n"

\* C19: an Add patch takes its path from its header and its content from
\* its "+" lines; its steps create the missing directories above the target,
\* recursively, and leave the target with exactly that content, whatever
\* the file held before; a step of it fails only when a directory is in the
\* place of the target or a file in the place of a directory above it,
\* never because the file or a directory above it is missing.
C19_Add ==
    [][\A p \in Procs :
          /\ \A a \in IoAddInputs :
                Receives(p, ApplyPatchEnd(PatchOf(a.text), getRoot)) =>
                    /\ req'[p].pc = "mkdir"
                    /\ req'[p].op = "add"
                    /\ req'[p].relPath = a.path
                    /\ req'[p].within.abs = "/ws/" \o a.path
                    /\ req'[p].content = a.content
                    /\ fs' = fs
          /\ (Steps(p) /\ req[p].op = "add") =>
                 WritesTarget(req[p], req'[p], fs, fs')]_vars

\* a.txt replaced as a whole, and n/m/x.txt added below two new directories
C19_Witness ==
    /\ served = 2
    /\ req[1].res = OkResponse("a.txt", "add")
    /\ req[2].res = OkResponse("n/m/x.txt", "add")
    /\ IoFs.files["/ws/a.txt"] = "one\ntwo\nthree\n"
    /\ fs.files["/ws/a.txt"] = "new\n"
    /\ ~IsDir(IoFs, "/ws/n")
    /\ IsDir(fs, "/ws/n") /\ IsDir(fs, "/ws/n/m")
    /\ fs.files["/ws/n/m/x.txt"] = "foo\nbar\n"

\* the files other than target are the same in f and f1, with the same
\* content
OthersUntouched(target, f, f1) ==
    \A q \in (DOMAIN f.files \cup DOMAIN f1.files) \ {target} :
        /\ IsFile(f, q) <=> IsFile(f1, q)
        /\ IsFile(f, q) => f1.files[q] = f.files[q]

\* C20: no step of a request, one that fails included, creates, removes or
\* changes a file other than the request's resolved target, and the
\* filesystem changes in no other step (the step that receives a request
\* changes nothing); so a request as a whole changes the content or the
\* existence of at most one file.
C20_OnePathPerCall ==
    [][/\ \A p \in Procs :
             Steps(p) => OthersUntouched(req[p].within.abs, fs, fs')
       /\ fs' # fs => \E p \in Procs : Steps(p)]_vars

\* sub was the target of a delete and a.txt of an add: k.txt, below sub, is
\* as it was
C20_Witness ==
    /\ served = 2
    /\ req[1].res = OkResponse("sub", "delete")
    /\ req[2].res = OkResponse("a.txt", "add")
    /\ fs.files["/ws/a.txt"] = "new\n"
    /\ IsDir(fs, "/ws/sub")
    /\ fs.files["/ws/sub/k.txt"] = IoFs.files["/ws/sub/k.txt"]
    /\ DOMAIN fs.files = DOMAIN IoFs.files

(***************************************************************************)
(* Pairs of Update patches on one file: the request run to its answer      *)
(***************************************************************************)
\* the largest newRange.start and newRange.count written in a varied header
MaxNew == 1

\* the file every patch of a pair updates
PairPath == "/ws/a.txt"

PairFs(original) ==
    [dirs |-> {"/", "/ws"}, files |-> [q \in {PairPath} |-> original]]

\* files: the text, and the lines the text has
PairFiles ==
    { [text |-> "one\ntwo\nthree\n", lines |-> <<"one", "two", "three", "">>],
      [text |-> "a\r\nb\r\n", lines |-> <<"a", "b", "">>] }

\* the text of a hunk header, of a hunk line and of an Update patch
HunkHeaderText(h) ==
    "@@ -" \o Decimal(h.oldRange.start) \o "," \o Decimal(h.oldRange.count)
        \o " +" \o Decimal(h.newRange.start) \o "," \o Decimal(h.newRange.count)
        \o " @@"

HunkLineText(ln) ==
    CASE ln.type = "add" -> "+" \o ln.text
      [] ln.type = "remove" -> "-" \o ln.text
      [] OTHER -> ln.text

HunkLinesOf(h) ==
    <<HunkHeaderText(h)>> \o [i \in 1..Len(h.lines) |-> HunkLineText(h.lines[i])]

RECURSIVE HunkListLines(_)
HunkListLines(hs) ==
    IF Len(hs) = 0 THEN <<>> ELSE HunkLinesOf(Head(hs)) \o HunkListLines(Tail(hs))

UpdatePatchText(hs) ==
    Join(<<BeginMarker, UpdateHeader \o " a.txt">> \o HunkListLines(hs)
             \o <<"*** End Patch">>, "\n")

PairBodies ==
    { <<>>,
      << [type |-> "remove", text |-> "two"], [type |-> "add", text |-> "TWO"] >>,
      << [type |-> "remove", text |-> "zzz"], [type |-> "add", text |-> "TWO"] >>,
      << [type |-> "add", text |-> "TWO"] >>,
      << [type |-> "remove", text |-> "one"], [type |-> "remove", text |-> "two"],
         [type |-> "add", text |-> "TWO"] >>,
      << [type |-> "context", text |-> " two"], [type |-> "remove", text |-> "x"],
         [type |-> "add", text |-> "y"] >> }

\* a hunk whose header repeats its old range as its new range
PairHunk(st, ct, b) ==
    [oldRange |-> [start |-> st, count |-> ct],
     newRange |-> [start |-> st, count |-> ct], lines |-> b]

PairHunks == {PairHunk(st, ct, b) : st \in {0, 1, 2, 5}, ct \in 0..2, b \in PairBodies}

\* second hunks: above or on the first one's range, and past the end
SecondHunks ==
    { PairHunk(1, 1, << [type |-> "remove", text |-> "one"],
                        [type |-> "add", text |-> "ONE"],
                        [type |-> "add", text |-> "uno"] >>),
      PairHunk(3, 2, << [type |-> "add", text |-> "z"] >>) }

PairLists ==
    {<<>>} \cup {<<h>> : h \in PairHunks}
           \cup {<<h, g>> : h \in PairHunks, g \in SecondHunks}

\* the hunk lists differing from hs in one hunk: in its new range alone, or
\* in its lines alone
Variants(hs) ==
    IF Len(hs) = 0 THEN {hs}
    ELSE { [hs EXCEPT ![k] = [@ EXCEPT !.newRange = [start |-> ns, count |-> nc]]] :
               k \in 1..Len(hs), ns \in 0..MaxNew, nc \in 0..MaxNew }
         \cup { [hs EXCEPT ![k] = [@ EXCEPT !.lines = b]] :
                    k \in 1..Len(hs), b \in PairBodies }

InitPair ==
    /\ dashboardState = [rootDir |-> OrElse(EnvMcpRootDir, ".")]
    /\ cache = [rootDir |-> OrElse(EnvMcpRootDir, ".")]
    /\ ControlAtRest
    /\ req = [p \in Procs |-> Idle]
    /\ served = 0
    /\ posted = 0
    /\ \E file \in PairFiles, a \in PairLists :
          \E b \in Variants(a) :
              /\ fs = PairFs(file.text)
              /\ fin = [called |-> TRUE, original |-> file.text,
                        lines |-> file.lines, a |-> a, b |-> b]
    /\ fout = NotCalled

\* what a request that has answered leaves: the file, the response, the calls
PatchOutcome(e) ==
    [file |-> e.fs.files[PairPath], res |-> e.req.res, calls |-> e.req.calls,
     hunks |-> e.req.hunks]

\* POST /mcp/apply_patch with the patch text, from its 'end' handler to its
\* answer: the file as it is then, the response, the calls made
RunPatch(hs, f) ==
    PatchOutcome(RunToEnd(ApplyPatchEnd(PatchOf(UpdatePatchText(hs)), getRoot), f))

\* each patch of the pair is applied to the file as it is at the start
CallPair ==
    /\ ~fout.called
    /\ fout' = [called |-> TRUE, a |-> RunPatch(fin.a, fs), b |-> RunPatch(fin.b, fs)]
    /\ UNCHANGED <<dashboardState, cache, fs, req, served, posted, fin>>
    /\ UNCHANGED ctlvars

SpecPair == InitPair /\ [][CallPair]_vars

\* the two hunk lists have the same old ranges
SameOldRanges(a, b) ==
    /\ Len(a) = Len(b)
    /\ \A k \in 1..Len(a) : a[k].oldRange = b[k].oldRange

\* the two patches are identical except for new ranges, which differ
NewRangeOnly(a, b) ==
    /\ SameOldRanges(a, b)
    /\ \A k \in 1..Len(a) : a[k].lines = b[k].lines
    /\ \E k \in 1..Len(a) : a[k].newRange # b[k].newRange

\* C21: newRange is informational only.  Two Update patches identical except
\* for the newRange start/count of their hunk headers, applied to the same
\* initial file, write the same file and get the same response, and that
\* response is ok:true whatever the new range says of the result.
C21_NewRangeInformational ==
    (fout.called /\ NewRangeOnly(fin.a, fin.b)) =>
        /\ fout.a.file = fout.b.file
        /\ fout.a.res = fout.b.res
        /\ fout.b.res = OkResponse("a.txt", "update")

\* the header of the second patch announces no line where the hunk leaves
\* one, at another place than the old range; both patches were parsed with
\* their own new ranges and both changed the file the same way
C21_Witness ==
    /\ fout.called
    /\ NewRangeOnly(fin.a, fin.b)
    /\ Len(fin.a) = 1
    /\ fin.a[1].oldRange = [start |-> 2, count |-> 1]
    /\ fin.b[1].newRange = [start |-> 0, count |-> 0]
    /\ Kept(fin.a[1]) = <<"TWO">>
    /\ fout.a.hunks = fin.a /\ fout.b.hunks = fin.b
    /\ fin.original = "one\ntwo\nthree\n"
    /\ fout.a.file = fout.b.file
    /\ Includes(fout.b.file, "one\nTWO\nthree")

\* the two patches have the same headers and the same add and context
\* lines, and differ in their remove lines
RemovesOnly(a, b) ==
    /\ SameOldRanges(a, b)
    /\ \A k \in 1..Len(a) :
          /\ a[k].newRange = b[k].newRange
          /\ Kept(a[k]) = Kept(b[k])
    /\ \E k \in 1..Len(a) : a[k].lines # b[k].lines

\* the remove and context lines of a hunk: what it says the file holds
\* from oldRange.start on
OldLines(h) == SelectSeq(h.lines, LAMBDA ln : ln.type # "add")

\* no remove or context line of any hunk is the line of the file at its
\* position, and there is such a line
Unmatched(hs, ls) ==
    /\ \E k \in 1..Len(hs) : Len(OldLines(hs[k])) > 0
    /\ \A k \in 1..Len(hs) : \A j \in 1..Len(OldLines(hs[k])) :
          LET at == hs[k].oldRange.start + j - 1
          IN  ~(at \in 1..Len(ls) /\ ls[at] = OldLines(hs[k])[j].text)

\* C27: hunk text is never checked against the file.  Two Update patches
\* with the same hunk headers and the same add and context lines, whatever
\* the texts and the number of their remove lines, write the same file and
\* get the same response on the same initial file; and an update none of
\* whose remove or context lines is the line of the file at its position
\* still writes the file and answers ok:true.
C27_HunkTextUnchecked ==
    fout.called =>
        /\ RemovesOnly(fin.a, fin.b) =>
               /\ fout.a.file = fout.b.file
               /\ fout.a.res = fout.b.res
        /\ Unmatched(fin.b, fin.lines) =>
               /\ fout.b.res = OkResponse("a.txt", "update")
               /\ fout.b.calls = << <<"readFile", PairPath>>, <<"writeFile", PairPath>> >>

\* line 2 replaced by the patch that removes "two" and by the one that
\* claims to remove "zzz", which line 2 is not
C27_Witness ==
    /\ fout.called
    /\ RemovesOnly(fin.a, fin.b)
    /\ Unmatched(fin.b, fin.lines)
    /\ ~Unmatched(fin.a, fin.lines)
    /\ Len(fin.a) = 1
    /\ fin.a[1].oldRange = [start |-> 2, count |-> 1]
    /\ fin.a[1].lines[1].text = "two"
    /\ fin.b[1].lines[1].text = "zzz"
    /\ fout.a.hunks = fin.a /\ fout.b.hunks = fin.b
    /\ fout.b.file = "one\nTWO\nthree\n\n"
    /\ fout.a.file = fout.b.file

\* C30: an update never fails because of its hunks.  Once the file has been
\* read, every hunk list (none, count 0, start 0, a range at or past the end
\* of the file, overlapping or descending hunks) leads to the write and to
\* ok:true; and an Update patch with no hunk leaves the file with the lines
\* it had, every one unchanged.
C30_HunksNeverFail ==
    fout.called =>
        /\ \A x \in {fout.a, fout.b} :
              /\ x.calls = << <<"readFile", PairPath>>, <<"writeFile", PairPath>> >>
              /\ x.res = OkResponse("a.txt", "update")
        /\ fin.a = <<>> => Split(fout.a.file, "\n") = fin.lines

(***************************************************************************)
(* The root of a request while POST /state changes it (under Spec)         *)
(***************************************************************************)
\* the path of the pending call of r: the directory of its target for
\* mkdir, its target for the other calls
CallPath(r) == IF r.pc = "mkdir" THEN PathDirname(r.within.abs) ELSE r.within.abs

\* C29: one root snapshot per request.  The root is resolved when the
\* request is received, before any call of fs.promises; every later step of
\* the request keeps that resolution and makes its call on the path resolved
\* then (mkdir on its directory), so an update writes the file it read and
\* an add or rewrite writes below the directory it made; POST /state changes
\* no request, suspended or not.
C29_OneRootSnapshot ==
    [][/\ \A p \in Procs :
             /\ (served' = served + 1 /\ req'[p] # req[p]) => req'[p].calls = <<>>
             /\ Steps(p) =>
                   /\ req'[p].within = req[p].within
                   /\ req'[p].calls =
                          Append(req[p].calls, <<req[p].pc, CallPath(req[p])>>)
                   /\ \A q \in DOMAIN fs'.files :
                          q # req[p].within.abs =>
                              q \in DOMAIN fs.files /\ fs'.files[q] = fs.files[q]
                   /\ (req[p].pc = "readFile" /\ req'[p].pc = "writeFile") =>
                          req'[p].original = fs.files[req[p].within.abs]
                   /\ (req[p].pc = "writeFile" /\ req'[p].res.status = 200) =>
                          fs'.files[req[p].within.abs] = req[p].content
       /\ posted' # posted => req' = req]_vars

\* an update of a.txt read /ws/a.txt, and before its write POST /state made
\* /a/b the root, where another a.txt is
C29_Witness ==
    /\ req[1].pc = "writeFile"
    /\ req[1].op = "update"
    /\ req[1].relPath = "a.txt"
    /\ req[1].calls = << <<"readFile", "/ws/a.txt">> >>
    /\ req[1].within.ROOT = "/ws"
    /\ posted = 1
    /\ dashboardState.rootDir = "/a/b"
    /\ IsFile(fs, "/a/b/a.txt")

(***************************************************************************)
(* POST /state and runtime.json (control/server.ts, runtime/index.ts)      *)
(*                                                                         *)
(* runtime.json is held as the JSON value of its text.  fs.writeFile on it *)
(* is one atomic step, taken when the call completes; between the call and *)
(* its completion other handlers run.                                      *)
(***************************************************************************)
\* POST /state requests received in a run
MaxStatePosts == 2

LM_BASE == "http://localhost:1234/v1"

LM_CHAT_URL == LM_BASE \o "/chat/completions"

EndsWith(s, p) == Len(s) >= Len(p) /\ SubSeq(s, Len(s) - Len(p) + 1, Len(s)) = p

RECURSIVE StripTrailingSlashes(_)
\* s.replace(/\/+$/, "")
StripTrailingSlashes(s) ==
    IF EndsWith(s, "/") THEN StripTrailingSlashes(SubSeq(s, 1, Len(s) - 1)) ELSE s

normalizeApiBase(input) ==
    LET raw == Trim(input)
        noTrail == StripTrailingSlashes(raw)
    IN  IF raw = "" THEN LM_CHAT_URL
        ELSE IF EndsWith(noTrail, "/chat/completions") THEN noTrail
        ELSE IF EndsWith(noTrail, "/v1") THEN noTrail \o "/chat/completions"
        ELSE noTrail

\* the defaults of the runtime, no environment variable being set
RuntimeDefaults ==
    [mcpEnabled |-> TRUE, rootDir |-> OrElse(EnvMcpRootDir, "."),
     apiBase |-> LM_BASE, model |-> "qwen2.5-coder:7b-instruct"]

RuntimeKeys == {"mcpEnabled", "rootDir", "apiBase", "model"}

\* dashboardState as the module sets it after initRuntime()
InitialDashboardState(runtime) ==
    [apiBase |-> normalizeApiBase(OrElse(runtime.apiBase, LM_BASE)),
     model |-> runtime.model,
     rootDir |-> OrElse(runtime.rootDir, "."),
     mcpEnabled |-> runtime.mcpEnabled # FALSE]

JBoolean(b) == [t |-> "boolean", s |-> "", n |-> IF b THEN 1 ELSE 0]

\* the JavaScript value of a JSON string or boolean
ValueOf(v) == IF v.t = "boolean" THEN v.n = 1 ELSE v.s

\* { ...dashboardState, ...patch, apiBase: nextApiBase }
Patched(state, patch, nextApiBase) ==
    [k \in DOMAIN state |->
        IF k = "apiBase" THEN nextApiBase
        ELSE IF k \in DOMAIN patch.obj THEN ValueOf(patch.obj[k])
        ELSE state[k]]

\* the bodies of POST /state
StatePatches ==
    { Invalid,
      JsonObject([rootDir |-> JString("/a/b")]),
      JsonObject([mcpEnabled |-> JBoolean(FALSE)]),
      JsonObject([apiBase |-> JString(" http://h:1/v1/ "), model |-> JString("m")]),
      JsonObject([apiBase |-> JNumber(5)]) }

NotAFunction == "(input || \"\").trim is not a function"

\* json(res, obj, code)
JsonResponse(code, obj) == [status |-> code, body |-> obj]

\* saveRuntime up to its await: the cache merged with the state saved
SavedCache(state) == [k \in RuntimeKeys |-> state[k]]

\* the handler of POST /state from the end of the body to the await of
\* saveRuntime: dashboardState patched, the cache updated, the write called
PostStateEnd(p) ==
    \E patch \in StatePatches :
        /\ posted < MaxStatePosts
        /\ post[p].pc \in {"idle", "done"}
        /\ posted' = posted + 1
        /\ IF ~patch.valid
           THEN /\ post' = [post EXCEPT ![p] =
                       [pc |-> "done", data |-> <<>>,
                        res |-> JsonResponse(400, [error |-> JsonSyntaxError])]]
                /\ UNCHANGED <<dashboardState, cache>>
           ELSE IF Field(patch, "apiBase").t \notin {"string", "undefined"}
           THEN /\ post' = [post EXCEPT ![p] =
                       [pc |-> "done", data |-> <<>>,
                        res |-> JsonResponse(400, [error |-> NotAFunction])]]
                /\ UNCHANGED <<dashboardState, cache>>
           ELSE LET given == Field(patch, "apiBase")
                    nextApiBase == normalizeApiBase(IF given.t = "string" THEN given.s
                                                    ELSE dashboardState.apiBase)
                    next == Patched(dashboardState, patch, nextApiBase)
                IN  /\ dashboardState' = next
                    /\ cache' = SavedCache(next)
                    /\ post' = [post EXCEPT ![p] =
                           [pc |-> "writeFile", data |-> SavedCache(next),
                            res |-> NoResponse]]
        /\ UNCHANGED <<fs, req, served, fin, fout, runtimeJson, chat,
                       activeLmAbortController, abortResponses, http>>

\* the writeFile of saveRuntime completes, and the handler answers with
\* dashboardState as it is then
PostStateWritten(p) ==
    /\ post[p].pc = "writeFile"
    /\ runtimeJson' = post[p].data
    /\ post' = [post EXCEPT ![p] =
           [@ EXCEPT !.pc = "done", !.res = JsonResponse(200, dashboardState)]]
    /\ UNCHANGED <<dashboardState, cache, fs, req, served, posted, fin, fout,
                   chat, activeLmAbortController, abortResponses, http>>

InitState ==
    /\ cache = RuntimeDefaults
    /\ dashboardState = InitialDashboardState(RuntimeDefaults)
    /\ fs = InitFs
    /\ req = [p \in Procs |-> Idle]
    /\ served = 0
    /\ posted = 0
    /\ fin = NotCalled
    /\ fout = NotCalled
    /\ ControlAtRest

NextState == \E p \in Procs : PostStateEnd(p) \/ PostStateWritten(p)

SpecState == InitState /\ [][NextState]_vars

\* every POST /state received has been answered, one of them with 200
AllPostsCompleted ==
    /\ \A p \in Procs : post[p].pc \in {"idle", "done"}
    /\ \E p \in Procs : post[p].res.status = 200

\* C23: POST /state persists the runtime.  Once every POST /state request
\* of a run has completed (at least one with 200), overlapping or not,
\* runtime.json holds the runtime cache, and the cache holds the apiBase,
\* model, rootDir and mcpEnabled of dashboardState.
C23_StatePersisted ==
    AllPostsCompleted =>
        /\ runtimeJson = cache
        /\ \A k \in RuntimeKeys : cache[k] = dashboardState[k]

(***************************************************************************)
(* POST /chat and POST /abort (control/server.ts)                          *)
(*                                                                         *)
(* A chat request is suspended on readJsonBody ("body"), on the fetch of   *)
(* the LM endpoint ("fetch"), on the reads of the response stream, taken   *)
(* as one step ("read"), or on executeTool ("tool").  An aborted signal    *)
(* makes the pending fetch or read reject with AbortError.                 *)
(***************************************************************************)
MAX_TOOL_DEPTH == 30

LM_MAX_RETRIES == 5

\* POST /abort requests received in a run
MaxAborts == 2

TooManyRounds == "Too many tool-call rounds, aborting."

FetchFailed == "Upstream LM fetch failed"

AbortError == "AbortError"

\* the request's handler has started and has not ended the response
InFlight(c) == c.pc \in {"body", "fetch", "read", "tool"}

\* res.write("event: error") with the message
WriteError(c, msg) == [c EXCEPT !.events = Append(@, msg)]

\* the end of handleChat, by either path: stopHeartbeat and res.end()
EndChat(c) ==
    [c EXCEPT !.pc = "done", !.heartbeat = FALSE, !.ended = @ + 1, !.tool = NoTool]

\* the catch of handleChat
Caught(c, e) == IF e = AbortError THEN EndChat(c) ELSE EndChat(WriteError(c, e))

\* depth > MAX_TOOL_DEPTH, one round later
DepthExceededLate(depth) == depth > MAX_TOOL_DEPTH + 1

\* depth > MAX_TOOL_DEPTH
DepthExceeded(depth) == depth > MAX_TOOL_DEPTH

\* runChatWithTools(ctx, messages, depth) up to its first await, or to the
\* end of handleChat when it returns at once
runChatWithTools(c, depth) ==
    IF DepthExceeded(depth)
    THEN EndChat(WriteError([c EXCEPT !.depth = depth], TooManyRounds))
    ELSE [c EXCEPT !.pc = "fetch", !.depth = depth, !.attempt = 1,
                   !.rounds = @ + 1, !.fetches = 1]

\* a rejected fetch that is never rethrown
AbortErrorRetried(outcome) == FALSE

\* if (e?.name === "AbortError") throw e
AbortErrorThrown(outcome) == outcome = AbortError

\* the retry loop after an attempt settled with the outcome: "ok" (an ok
\* response with a body), "failed" (another response, or a rejection that
\* is not an abort) or AbortError
AfterFetch(c, outcome) ==
    LET c1 == [c EXCEPT !.outcome = outcome]
    IN  IF AbortErrorThrown(outcome) THEN Caught(c1, AbortError)
        ELSE IF outcome = "ok" THEN [c1 EXCEPT !.pc = "read"]
        ELSE IF c.attempt + 1 <= LM_MAX_RETRIES
        THEN [c1 EXCEPT !.attempt = @ + 1, !.fetches = @ + 1]
        ELSE EndChat(WriteError(c1, FetchFailed))

\* what the LM streams: text only, a tool call, tool_calls deltas without a
\* function name, or a stream that breaks
ToolCalls ==
    { [name |-> "repo_browser.read_file", path |-> "a.txt", content |-> ""],
      [name |-> "repo_browser.create_file", path |-> "t.txt", content |-> "x"],
      [name |-> "repo_browser.create_file", path |-> "../outside/t.txt",
       content |-> "x"],
      [name |-> "shell", path |-> "", content |-> ""] }

Stream(kind, tool) == [kind |-> kind, tool |-> tool]

ToolFreeStreams ==
    {Stream("content", NoTool), Stream("nameless", NoTool), Stream("broken", NoTool)}

Streams == ToolFreeStreams \cup {Stream("tool_calls", t) : t \in ToolCalls}

StreamBroken == "terminated"

\* the read loop and what follows it, the stream having ended
AfterStream(c, stream) ==
    IF stream.kind = "broken" THEN Caught([c EXCEPT !.outcome = "failed"], StreamBroken)
    ELSE IF stream.kind = "tool_calls"
    THEN [c EXCEPT !.pc = "tool", !.tool = stream.tool, !.executed = @ + 1,
                   !.outcome = "ok"]
    ELSE EndChat([c EXCEPT !.outcome = "ok"])

EscapesError(relPath, ROOT) ==
    "Path escapes project root: rel=\"" \o relPath \o "\", root=\"" \o ROOT \o "\""

\* executeTool(name, args): the filesystem after it, and "" or the message
\* of the Error it throws
ExecuteTool(tool, f, root) ==
    IF tool.name = "repo_browser.create_file"
    THEN LET w == withinRoot(root, tool.path)
             m == FsMkdir(f, PathDirname(w.abs))
             wr == FsWriteFile(m.fs, w.abs, tool.content)
         IN  IF ~w.ok THEN [fs |-> f, error |-> EscapesError(tool.path, w.ROOT)]
             ELSE IF ~m.ok THEN [fs |-> m.fs, error |-> m.error]
             ELSE [fs |-> wr.fs, error |-> wr.error]
    ELSE [fs |-> f, error |-> ""]

\* a chat request changes from c to c1: the controller is set to null by the
\* end of handleChat, whichever request's controller it holds
ChatStep(p, c1) ==
    /\ chat' = [chat EXCEPT ![p] = c1]
    /\ activeLmAbortController' =
           IF c1.pc = "done" THEN Null ELSE activeLmAbortController

\* POST /chat arrives: handleChat runs to await readJsonBody(req)
ChatRequest(p) ==
    /\ chat[p].pc = "idle"
    /\ chat' = [chat EXCEPT ![p] = [NoChat EXCEPT !.pc = "body"]]
    /\ activeLmAbortController' = p
    /\ UNCHANGED <<dashboardState, cache, fs, req, served, posted, fin, fout,
                   runtimeJson, post, abortResponses, http>>

\* the body has been read: a JSON text, or a text JSON.parse rejects
ChatBody(p) ==
    /\ chat[p].pc = "body"
    /\ \E valid \in BOOLEAN :
          ChatStep(p, IF ~valid THEN Caught(chat[p], JsonSyntaxError)
                      ELSE runChatWithTools(
                               [chat[p] EXCEPT !.heartbeat = TRUE,
                                   !.toolsPayload = dashboardState.mcpEnabled # FALSE],
                               0))
    /\ UNCHANGED <<dashboardState, cache, fs, req, served, posted, fin, fout,
                   runtimeJson, post, abortResponses, http>>

\* the pending fetch settles
FetchSettles(p) ==
    /\ chat[p].pc = "fetch"
    /\ \E outcome \in IF chat[p].aborted THEN {AbortError} ELSE {"ok", "failed"} :
          ChatStep(p, AfterFetch(chat[p], outcome))
    /\ UNCHANGED <<dashboardState, cache, fs, req, served, posted, fin, fout,
                   runtimeJson, post, abortResponses, http>>

\* the response stream has been read to its end, or a read is rejected
StreamEnds(p, streams) ==
    /\ chat[p].pc = "read"
    /\ IF chat[p].aborted
       THEN ChatStep(p, Caught([chat[p] EXCEPT !.outcome = AbortError], AbortError))
       ELSE \E stream \in streams : ChatStep(p, AfterStream(chat[p], stream))
    /\ UNCHANGED <<dashboardState, cache, fs, req, served, posted, fin, fout,
                   runtimeJson, post, abortResponses, http>>

ReadStream(p) == StreamEnds(p, Streams)

ReadToolFreeStream(p) == StreamEnds(p, ToolFreeStreams)

\* executeTool settles, and the next round begins
ToolSettles(p) ==
    /\ chat[p].pc = "tool"
    /\ LET e == ExecuteTool(chat[p].tool, fs, getWorkspaceRoot)
           c == [chat[p] EXCEPT !.tool = NoTool]
       IN  /\ fs' = e.fs
           /\ ChatStep(p, IF e.error # ""
                          THEN Caught([c EXCEPT !.outcome = "failed"], e.error)
                          ELSE runChatWithTools([c EXCEPT !.outcome = "ok"],
                                                c.depth + 1))
    /\ UNCHANGED <<dashboardState, cache, req, served, posted, fin, fout,
                   runtimeJson, post, abortResponses, http>>

\* res.on("close"): the client has gone
ClientCloses(p) ==
    /\ InFlight(chat[p])
    /\ ~chat[p].aborted
    /\ chat' = [chat EXCEPT ![p].aborted = TRUE]
    /\ UNCHANGED <<dashboardState, cache, fs, req, served, posted, fin, fout,
                   runtimeJson, post, activeLmAbortController, abortResponses, http>>

\* POST /abort
Abort ==
    /\ Len(abortResponses) < MaxAborts
    /\ IF activeLmAbortController # Null
       THEN /\ chat' = [chat EXCEPT ![activeLmAbortController].aborted = TRUE]
            /\ activeLmAbortController' = Null
            /\ abortResponses' = Append(abortResponses, [ok |-> TRUE, aborted |-> TRUE])
       ELSE /\ abortResponses' = Append(abortResponses, [ok |-> TRUE, aborted |-> FALSE])
            /\ UNCHANGED <<chat, activeLmAbortController>>
    /\ UNCHANGED <<dashboardState, cache, fs, req, served, posted, fin, fout,
                   runtimeJson, post, http>>

\* the server with runtime.json as a start finds it: tools enabled or not
InitChat ==
    /\ \E enabled \in BOOLEAN :
          /\ cache = [RuntimeDefaults EXCEPT !.mcpEnabled = enabled]
          /\ dashboardState = InitialDashboardState(cache)
    /\ fs = InitFs
    /\ req = [p \in Procs |-> Idle]
    /\ served = 0
    /\ posted = 0
    /\ fin = NotCalled
    /\ fout = NotCalled
    /\ ControlAtRest

\* a client that sends one chat, on either connection
SingleChat(p) ==
    /\ \A q \in Procs : chat[q].pc = "idle"
    /\ ChatRequest(p)

NextChat ==
    \/ \E p \in Procs :
          \/ SingleChat(p)
          \/ ChatBody(p)
          \/ FetchSettles(p)
          \/ ReadStream(p)
          \/ ToolSettles(p)
          \/ ClientCloses(p)
    \/ Abort

SpecChat == InitChat /\ [][NextChat]_vars

\* clients whose chats overlap, the LM streaming no tool call
NextAbort ==
    \/ \E p \in Procs :
          \/ ChatRequest(p)
          \/ ChatBody(p)
          \/ FetchSettles(p)
          \/ ReadToolFreeStream(p)
          \/ ClientCloses(p)
    \/ Abort

SpecAbort == InitChat /\ [][NextAbort]_vars

\* a variant of the handler: the rounds left, then the awaits left in the
\* round (the fetches of the retry loop, the read, the tool)
ChatRank(c) ==
    LET perRound == LM_MAX_RETRIES + 3
    IN  CASE c.pc = "body" -> (MAX_TOOL_DEPTH + 1) * perRound + 1
          [] c.pc = "fetch" ->
                 (MAX_TOOL_DEPTH - c.depth) * perRound + 3 + (LM_MAX_RETRIES - c.attempt)
          [] c.pc = "read" -> (MAX_TOOL_DEPTH - c.depth) * perRound + 2
          [] c.pc = "tool" -> (MAX_TOOL_DEPTH - c.depth) * perRound + 1
          [] OTHER -> 0

\* the handler of request p takes a step: one of its awaits settles
HandlerSteps(p) ==
    /\ InFlight(chat[p])
    /\ chat'[p] # chat[p]
    /\ chat'[p].aborted = chat[p].aborted

\* the await the request is suspended on can settle, and each way it
\* settles moves the handler on
CanSettle(c) ==
    CASE c.pc = "body" ->
             /\ Caught(c, JsonSyntaxError) # c
             /\ runChatWithTools(c, 0) # c
      [] c.pc = "fetch" ->
             \A outcome \in {"ok", "failed", AbortError} : AfterFetch(c, outcome) # c
      [] c.pc = "read" ->
             /\ Caught(c, AbortError) # c
             /\ \A stream \in Streams : AfterStream(c, stream) # c
      [] c.pc = "tool" ->
             /\ Caught(c, StreamBroken) # c
             /\ runChatWithTools(c, c.depth + 1) # c

\* C25: bounded tool loop.  A chat request begins at most MAX_TOOL_DEPTH+1
\* (31) model rounds.  When a tool has run in the round of depth
\* MAX_TOOL_DEPTH, the next call of runChatWithTools writes the error event
\* 'Too many tool-call rounds, aborting.', no tool is executed and no round
\* begun after it, the heartbeat is stopped and the response ended, once.
\* Every request in flight has an await pending that can settle, every
\* step of its handler lowers a non-negative variant, and an ended request
\* changes no more: a request whose awaits settle ends.
C25_BoundedToolLoop ==
    [][\A p \in Procs :
          LET c == chat[p]
              c1 == chat'[p]
          IN  /\ c1.rounds <= MAX_TOOL_DEPTH + 1
              /\ c1.ended <= 1
              /\ (/\ HandlerSteps(p)
                  /\ c.pc = "tool" /\ c.depth = MAX_TOOL_DEPTH
                  /\ c1.outcome = "ok") =>
                     /\ c1.events = Append(c.events, TooManyRounds)
                     /\ c1.executed = c.executed
                     /\ c1.rounds = c.rounds
                     /\ c1.pc = "done"
                     /\ ~c1.heartbeat
                     /\ c1.ended = 1
              /\ HandlerSteps(p) => ChatRank(c1) < ChatRank(c) /\ ChatRank(c1) >= 0
              /\ InFlight(c1) => CanSettle(c1)
              /\ c1.pc = "done" => (c1.ended = 1 /\ ~c1.heartbeat)
              /\ c.pc = "done" => c1 = c]_vars

\* 31 rounds, each ending in a tool call, and the error event after them
C25_Witness ==
    /\ chat[1].pc = "done"
    /\ chat[1].rounds = MAX_TOOL_DEPTH + 1
    /\ chat[1].executed = MAX_TOOL_DEPTH + 1
    /\ chat[1].depth = MAX_TOOL_DEPTH + 1
    /\ chat[1].events = <<TooManyRounds>>
    /\ chat[1].ended = 1
    /\ ~chat[1].heartbeat
    /\ ~chat[1].aborted

\* the fetch request p awaits settles in this step
FetchStep(p) == HandlerSteps(p) /\ chat[p].pc = "fetch"

\* C26: bounded retry, no retry after abort.  In a round the LM endpoint is
\* fetched at most LM_MAX_RETRIES (5) times; an attempt that returns an ok
\* response with a body is the last of its round; an attempt that fails
\* otherwise is followed by the next attempt while fewer than 5 were made;
\* after an attempt that fails with AbortError the request ends with no
\* other fetch, no other round, no tool and no error event; and when the
\* fifth attempt fails without abort, the error event 'Upstream LM fetch
\* failed' is written once, no tool is executed and the request ends.
C26_BoundedRetry ==
    [][\A p \in Procs :
          LET c == chat[p]
              c1 == chat'[p]
          IN  /\ c1.fetches <= LM_MAX_RETRIES
              /\ (FetchStep(p) /\ c1.outcome = "ok") =>
                     /\ c1.pc = "read"
                     /\ c1.fetches = c.fetches /\ c1.rounds = c.rounds
              /\ (FetchStep(p) /\ c1.outcome = "failed" /\ c.fetches < LM_MAX_RETRIES) =>
                     /\ c1.pc = "fetch"
                     /\ c1.fetches = c.fetches + 1 /\ c1.rounds = c.rounds
                     /\ c1.events = c.events
              /\ (FetchStep(p) /\ c1.outcome = AbortError) =>
                     /\ c1.pc = "done"
                     /\ c1.fetches = c.fetches /\ c1.rounds = c.rounds
                     /\ c1.executed = c.executed
                     /\ c1.events = c.events
              /\ (FetchStep(p) /\ c1.outcome = "failed" /\ c.fetches = LM_MAX_RETRIES) =>
                     /\ c1.pc = "done"
                     /\ c1.events = Append(c.events, FetchFailed)
                     /\ c1.executed = c.executed
                     /\ c1.fetches = c.fetches /\ c1.rounds = c.rounds
              /\ c.pc = "done" => c1 = c]_vars

\* the second round's third fetch was aborted: three fetches, no event
C26_Witness ==
    /\ chat[1].pc = "done"
    /\ chat[1].outcome = AbortError
    /\ chat[1].aborted
    /\ chat[1].rounds = 2
    /\ chat[1].fetches = 3
    /\ chat[1].executed = 1
    /\ chat[1].events = <<>>
    /\ chat[1].ended = 1
    /\ abortResponses = << [ok |-> TRUE, aborted |-> TRUE] >>

\* C22: MCP tools respect mcpEnabled.  While dashboardState.mcpEnabled is
\* false no step of a chat calls executeTool with a repo_browser tool,
\* whatever the model streams, and no step changes the filesystem.
C22_ToolsRespectMcpEnabled ==
    [][dashboardState.mcpEnabled = FALSE =>
           /\ \A p \in Procs :
                 ~(/\ chat'[p].pc = "tool"
                   /\ StartsWith(chat'[p].tool.name, "repo_browser."))
           /\ fs' = fs]_vars

\* POST /abort is answered in this step
AbortAnswered == Len(abortResponses') = Len(abortResponses) + 1

\* C24: /abort cancels the running chat.  A POST /abort received while chat
\* requests are in flight, their signals not yet aborted, aborts the signal
\* of every one of them and answers {ok:true, aborted:true}, whether one
\* chat is in flight or two overlap, and whether or not another has ended.
C24_AbortCancels ==
    [][AbortAnswered =>
           \A p \in Procs :
               (InFlight(chat[p]) /\ ~chat[p].aborted) =>
                   /\ chat'[p].aborted
                   /\ abortResponses'[Len(abortResponses')] =
                          [ok |-> TRUE, aborted |-> TRUE]]_vars

(***************************************************************************)
(* The two 'request' listeners of the server (control/server.ts,           *)
(* mcp/server.ts)                                                          *)
(*                                                                         *)
(* The handler given to createServer is the first listener, the one added  *)
(* by attachMCPToServer the second; for every request both run, in that    *)
(* order, up to their first await.  A route whose handler awaits ends the  *)
(* response when its awaits have settled: each such handler ends it on     *)
(* both branches of its try/catch.                                         *)
(***************************************************************************)
Methods == {"GET", "POST", "DELETE"}

Urls ==
    { "/", "/index.html", "/state", "/models", "/fs/read", "/fs/write",
      "/abort", "/chat", "/healthz", "/mcp/apply_patch", "/mcp/rewrite_file",
      "/mcp/other", "/mcp/apply_patch?dry=1", "/favicon.ico" }

\* what a listener does with a request before its first await
Returns == [kind |-> "returns", status |-> 0, json |-> FALSE]

Awaits == [kind |-> "awaits", status |-> 0, json |-> FALSE]

Responds(status, json) == [kind |-> "responds", status |-> status, json |-> json]

\* the 404 fallback: JSON for the API's paths
wantsJson(url) ==
    \/ StartsWith(url, "/state")
    \/ StartsWith(url, "/models")
    \/ StartsWith(url, "/chat")
    \/ StartsWith(url, "/abort")
    \/ StartsWith(url, "/fs/")
    \/ StartsWith(url, "/mcp/")

\* the handler given to createServer
CreateServerHandler(method, url) ==
    IF url = "/mcp/apply_patch" \/ url = "/mcp/rewrite_file" THEN Returns
    ELSE IF url = "/state" /\ method = "GET" THEN Responds(200, TRUE)
    ELSE IF url = "/state" /\ method = "POST" THEN Awaits
    ELSE IF url = "/models" /\ method = "GET" THEN Awaits
    ELSE IF url = "/fs/read" /\ method = "POST" THEN Awaits
    ELSE IF url = "/fs/write" /\ method = "POST" THEN Awaits
    ELSE IF method = "GET" /\ (url = "/" \/ url = "/index.html") THEN Awaits
    ELSE IF method = "POST" /\ url = "/abort" THEN Responds(200, TRUE)
    ELSE IF method = "POST" /\ url = "/chat" THEN Awaits
    ELSE IF method = "GET" /\ url = "/healthz" THEN Responds(200, TRUE)
    ELSE Responds(404, wantsJson(url))

\* the listener added by attachMCPToServer
McpListener(method, url) ==
    IF method # "POST" THEN Returns
    ELSE IF url = "/mcp/apply_patch" THEN Awaits
    ELSE IF url = "/mcp/rewrite_file" THEN Awaits
    ELSE Returns

Listeners == {"createServer", "attachMCPToServer"}

ListenerOf(l, method, url) ==
    IF l = "createServer" THEN CreateServerHandler(method, url)
    ELSE McpListener(method, url)

\* the 'request' event: both listeners have run up to their first await
HttpRequest(p) ==
    \E method \in Methods, url \in Urls :
        LET responding == {l \in Listeners : ListenerOf(l, method, url).kind = "responds"}
            awaiting == {l \in Listeners : ListenerOf(l, method, url).kind = "awaits"}
        IN  /\ http[p].pc = "idle"
            /\ http' = [http EXCEPT ![p] =
                   [pc |-> IF awaiting = {} THEN "done" ELSE "pending",
                    method |-> method, url |-> url,
                    ends |-> Cardinality(responding), by |-> responding,
                    pending |-> awaiting]]
            /\ UNCHANGED <<dashboardState, cache, fs, req, served, posted, fin, fout,
                           runtimeJson, post, chat, activeLmAbortController,
                           abortResponses>>

\* the awaits of a listener's handler have settled: it ends the response
HandlerEnds(p) ==
    \E l \in http[p].pending :
        /\ http[p].pc = "pending"
        /\ http' = [http EXCEPT ![p] =
               [@ EXCEPT !.ends = @ + 1, !.by = @ \cup {l},
                         !.pending = @ \ {l},
                         !.pc = IF http[p].pending = {l} THEN "done" ELSE "pending"]]
        /\ UNCHANGED <<dashboardState, cache, fs, req, served, posted, fin, fout,
                       runtimeJson, post, chat, activeLmAbortController,
                       abortResponses>>

NextHttp == \E p \in Procs : HttpRequest(p) \/ HandlerEnds(p)

SpecHttp == InitState /\ [][NextHttp]_vars

\* C28: every request has exactly one response, from exactly one of the
\* two listeners.  For every method and URL, the non-POST requests to
\* /mcp/apply_patch and /mcp/rewrite_file included, exactly one listener
\* has ended the response or has its handler pending and will end it, and
\* once no handler is pending the response has been ended once.
C28_ExactlyOneResponse ==
    \A p \in Procs :
        http[p].pc # "idle" =>
            /\ http[p].ends + Cardinality(http[p].pending) = 1
            /\ Cardinality(http[p].by \cup http[p].pending) = 1
            /\ http[p].pc = "done" => http[p].ends = 1

====
